---- MODULE Spec2Model ----
(***************************************************************************)
(* Model of the Data_Insights fetch pipeline:                              *)
(*   notebooks/run_notebook.py        robust_fetch_table and the           *)
(*                                    whole-table fetch loop               *)
(*   notebooks/01_fetch_and_preview.py  the same robust_fetch_table        *)
(*   src/fetch_data.py                fetch_table, fetch_all_tables        *)
(*   notebooks/improved_data_fetch.py fetch_table_with_timeout,            *)
(*                                    fetch_all_tables_improved,           *)
(*                                    estimate_table_size_bytes,           *)
(*                                    preflight_estimate_and_confirm,      *)
(*                                    fetch_single_table_sample, main      *)
(*   notebooks/fetch_data.py          fetch_table_files and main           *)
(*                                    (per-file mode)                      *)
(* The remote service, the parquet/CSV writers and the clock are the       *)
(* environment: each of their calls returns or raises nondeterministically.*)
(* Spec runs each entry point once on an empty output directory; SpecRerun *)
(* also runs run_notebook.py and the per-file main a second time on the    *)
(* files of the first run.                                                 *)
(***************************************************************************)
EXTENDS Integers, Sequences, FiniteSets, TLC

VARIABLES
    prog,              \* the entry point that is running
    pc,                \* control position
    catalog,           \* remote state: the tables the sharing server lists
    tables,            \* the local variable `tables` of the running entry point
    k,                 \* number of tables of `tables` whose loop body has finished
    started,           \* history: indices of the tables whose loop body has started
    max_retries,       \* robust_fetch_table: parameter
    delay,             \* robust_fetch_table: parameter
    attempt,           \* robust_fetch_table: loop variable of range(max_retries)
    calls,             \* history: outcome of every delta_sharing.load_as_pandas call of the current robust_fetch_table call
    slept,             \* history: argument of every time.sleep of the current robust_fetch_table call
    rft_status,        \* robust_fetch_table: "idle", "running", "returned_df", "returned_None", "raised"
    rft_err,           \* robust_fetch_table: the exception it raised
    all_dfs,           \* dict all_dfs / dfs: its set of keys
    failed_tables,     \* list failed_tables: sequence of <<key, str(e)>>
    successful_fetches,\* fetch_all_tables_improved: counter
    save,              \* fetch_all_tables: parameter
    disk,              \* local files: function from path to content
    clock,             \* the reading of the local clock: the second datetime.now() last gave
    exc,               \* the exception that left the entry point uncaught (NoErr if none)
    files,             \* fetch_table_files: the file listing of the current table
    fi,                \* fetch_table_files: number of files of `files` processed
    processed,         \* history: outcome of every file of the current table
    saved_files,       \* fetch_table_files: list saved_files
    ddf,               \* fetch_table_files: the paths and contents the Dask view reads
    ftf_result,        \* fetch_table_files: "running", "ddf", "None", "raised"
    ftf_why,           \* fetch_table_files: which return statement was taken
    successful_tables, \* per-file main: list successful_tables
    returns,           \* history: what fetch_table_files returned for each finished table
    nlisted,           \* total number of file descriptors listed in this run
    sample_df,         \* improved main: what fetch_single_table_sample returned ("unset", "df", "None")
    est,               \* history: what the remote calls of each estimate_table_size_bytes call did
    per_table_sizes,   \* preflight_estimate_and_confirm: list per_table_sizes of <<t, size_bytes>>
    total_bytes,       \* preflight_estimate_and_confirm: total_bytes
    answer,            \* preflight_estimate_and_confirm: what input() did
    run,               \* 1 in the first run of the entry point, 2 when it is run again
    disk1,             \* history: the local files the first run left
    listings,          \* remote state seen so far: the number of files of each listed table (-1: not seen)
    written,           \* history: the paths written in this run
    list_raised,       \* history: listing the tables raised in this run
    fetched,           \* history: for each table handled, what its remote load did
    reads,             \* history: outcome of every download request of the current table
    pauses,            \* history: the time.sleep calls of the table loop: after which table, how long
    sample_load,       \* history: what the load of the sample did (improved main)
    creds_file,        \* local state: what credentials/config.share holds
    lc_result          \* load_credentials: what it returned ("unset", "creds", "None")

vars == << prog, pc, catalog, tables, k, started, max_retries, delay, attempt,
           calls, slept, rft_status, rft_err, all_dfs, failed_tables,
           successful_fetches, save, disk, clock, exc, files, fi, processed,
           saved_files, ddf, ftf_result, ftf_why, successful_tables, returns, nlisted,
           sample_df, est, per_table_sizes, total_bytes, answer,
           run, disk1, listings, written, list_raised, fetched, reads, pauses,
           sample_load, creds_file, lc_result >>

(***************************************************************************)
(* Bounds of the model.                                                    *)
(***************************************************************************)
\* the largest max_retries a direct call of robust_fetch_table is given
MaxRetries == 3
\* the longest table listing
MaxTables == 2
\* the most file descriptors the server lists, over all the tables of a listing
MaxFiles == 3
\* a second run is explored after a first run of at most this many tables
MaxRerunTables == 1
\* and at most this many listed files
MaxRerunFiles == 2
\* the most file descriptors listed in a run checked for termination
MaxLiveFiles == 2
\* the most files of one table when the names of its part files are compared
MaxPartFiles == 101

(***************************************************************************)
(* Program constants.                                                      *)
(***************************************************************************)
DefaultMaxRetries == 3
DefaultDelay == 2
PadWidth == 2
\* improved_data_fetch.py line 204: time.sleep(2)
TableDelay == 2
\* notebooks/fetch_data.py line 173: time.sleep(3)
PerFileTableDelay == 3
\* direct_delta_fetch.py line 31: creds['bearerToken'][:20]
TokenShown == 20
\* run_notebook.py line 45: error_msg[:100]
ErrorShown == 100
\* direct_delta_fetch.py line 70: tables[:2]
DirectTables == 2

(***************************************************************************)
(* Strings are sequences of characters, so that Python's substring test    *)
(* `in` is computed as the code computes it.                               *)
(***************************************************************************)
Contains(sub, s) ==
    \E i \in 0..(Len(s) - Len(sub)) : SubSeq(s, i + 1, i + Len(sub)) = sub

S_401 == <<"4","0","1">>
S_NoAuthenticationInformation ==
    <<"N","o","A","u","t","h","e","n","t","i","c","a","t","i","o","n",
      "I","n","f","o","r","m","a","t","i","o","n">>
S_FileNotFoundError ==
    <<"F","i","l","e","N","o","t","F","o","u","n","d","E","r","r","o","r">>

\* str(type(e)) for an exception class with qualified name q
StrType(q) == <<"<","c","l","a","s","s"," ","'">> \o q \o <<"'",">">>

(***************************************************************************)
(* Secret material: the signature of a signed URL and the bearer token of  *)
(* the credential profile.                                                 *)
(***************************************************************************)
Signature == <<"k","3","y">>
\* a signed URL of a remote file
SignedUrl == <<"h","/","f","?","s","i","g","=">> \o Signature

BearerShort == <<"t","0","k","3","n">>
BearerLong == <<"a","b","c","d","e","f","g","h","i","j","k","l","m","n","o","p","q","r",
      "s","t","u","v","w","x">>

\* credentials/config.share: a profile with its three keys, a profile
\* without the bearerToken key, or no readable file
CredFile(kind, token) ==
    [kind |-> kind, endpoint |-> <<"h">>, expirationTime |-> <<"2","0","3","0">>,
     bearerToken |-> token]
CredFiles ==
    { CredFile("ok", BearerShort), CredFile("ok", BearerLong),
      CredFile("no_token", <<>>), CredFile("missing", <<>>) }

(***************************************************************************)
(* Exceptions.  etype is the qualified class name, msg is str(e), cause is *)
(* what happened at the remote service (not visible to the code).          *)
(***************************************************************************)
NoErr == [etype |-> <<>>, msg |-> <<>>, cause |-> "none"]

E_401 ==
    [etype |-> <<"r","e","q","u","e","s","t","s",".","e","x","c","e","p","t",
                 "i","o","n","s",".","H","T","T","P","E","r","r","o","r">>,
     msg |-> <<"4","0","1"," ","U","n","a","u","t","h","o","r","i","z","e","d">>,
     cause |-> "http_401"]
E_UrlGone ==
    [etype |-> S_FileNotFoundError,
     msg |-> SignedUrl,
     cause |-> "signed_url_not_found"]
E_NoAuth ==
    [etype |-> <<"E","x","c","e","p","t","i","o","n">>,
     msg |-> S_NoAuthenticationInformation,
     cause |-> "no_authentication_information"]
E_BadRow ==
    [etype |-> <<"V","a","l","u","e","E","r","r","o","r">>,
     msg |-> <<"b","a","d"," ","r","o","w"," ","1","4","0","1">>,
     cause |-> "malformed_payload"]
E_Timeout ==
    [etype |-> <<"T","i","m","e","o","u","t","E","r","r","o","r">>,
     msg |-> <<"t","i","m","e","d"," ","o","u","t">>,
     cause |-> "network_timeout"]
E_Disk ==
    [etype |-> <<"O","S","E","r","r","o","r">>,
     msg |-> <<"d","i","s","k"," ","f","u","l","l">>,
     cause |-> "local_write"]
\* raise Exception("Failed to fetch table after all retries")
E_AfterRetries ==
    [etype |-> <<"E","x","c","e","p","t","i","o","n">>,
     msg |-> <<"F","a","i","l","e","d"," ","t","o"," ","f","e","t","c","h"," ",
               "t","a","b","l","e"," ","a","f","t","e","r"," ","a","l","l"," ",
               "r","e","t","r","i","e","s">>,
     cause |-> "none"]

\* what a remote read can raise
RemoteErrors == {E_401, E_UrlGone, E_NoAuth, E_BadRow, E_Timeout}
\* the causes the specification calls authentication/URL transience
TransientCauses == {"http_401", "signed_url_not_found", "no_authentication_information"}

(***************************************************************************)
(* robust_fetch_table                                                      *)
(***************************************************************************)
\* line 36: the condition of the retry branch
IsRetryableTruthy(e) == TRUE
IsRetryable(e) ==
    \/ Contains(S_FileNotFoundError, StrType(e.etype))
    \/ Contains(S_401, e.msg)
    \/ Contains(S_NoAuthenticationInformation, e.msg)

\* line 24: for attempt in range(max_retries)
InRange(a, n) == a < n

\* lines 24 and 40: `continue` takes the next value of range(max_retries)
NextAttemptSame(a) == a
NextAttempt(a) == a + 1

\* line 37: if attempt < max_retries - 1
MayRetryAlways(a, n) == TRUE
MayRetrySleepsLast(a, n) == a < n
MayRetry(a, n) == a < n - 1

(***************************************************************************)
(* Tables of the remote catalog.  Two of them share the table name in      *)
(* different schemas.                                                      *)
(***************************************************************************)
T_Orders  == [share |-> <<"s">>, schema |-> <<"a">>, name |-> <<"o","r","d">>]
T_Orders2 == [share |-> <<"s">>, schema |-> <<"b">>, name |-> <<"o","r","d">>]
T_Items   == [share |-> <<"s">>, schema |-> <<"a">>, name |-> <<"i","t","m">>]
TableUniverse == << T_Orders, T_Orders2, T_Items >>

RECURSIVE Pick(_, _)
Pick(S, i) ==
    IF i > Len(TableUniverse) THEN <<>>
    ELSE (IF i \in S THEN << TableUniverse[i] >> ELSE <<>>) \o Pick(S, i + 1)

\* what list_all_tables() can return
Catalogs ==
    { Pick(S, 1) : S \in { X \in SUBSET (1..Len(TableUniverse)) : Cardinality(X) <= MaxTables } }

\* key = f"{t.share}.{t.schema}.{t.name}"
Key(t) == t.share \o <<".">> \o t.schema \o <<".">> \o t.name

(***************************************************************************)
(* Formatting and file names.  A path is a directory (a sequence of        *)
(* components below the project's data directory) and a file name (a       *)
(* string).                                                                *)
(***************************************************************************)
DigitChar(d) == <<"0","1","2","3","4","5","6","7","8","9">>[d + 1]

RECURSIVE DecStr(_)
DecStr(n) == IF n < 10 THEN << DigitChar(n) >> ELSE DecStr(n \div 10) \o << DigitChar(n % 10) >>

RECURSIVE ZeroPad(_, _)
ZeroPad(s, w) == IF Len(s) >= w THEN s ELSE ZeroPad(<<"0">> \o s, w)

\* datetime.now().strftime("%Y%m%d_%H%M%S") of the reading c of the local
\* clock: eight digits, "_", six digits
StrfTime(c) == ZeroPad(DecStr(c \div 1000000), 8) \o <<"_">> \o ZeroPad(DecStr(c % 1000000), 6)

S_csv == <<".","c","s","v">>
S_part == <<"_","p","a","r","t","_">>
S_combined == <<"_","c","o","m","b","i","n","e","d","_">>
S_parquet == <<".","p","a","r","q","u","e","t">>

\* config.py line 13: RAW_DIR
RAW_DIR == << <<"r","a","w">> >>

\* RAW_DIR / f"{t.name}_{timestamp}.parquet"
ParquetPath(name, ts) ==
    [dir |-> RAW_DIR, file |-> name \o <<"_">> \o StrfTime(ts) \o S_parquet]

\* what a written file holds: the table it came from, the position of the
\* remote file in the listing (0 for a whole table or a combined file),
\* whether the write finished, and for a combined file the files it was read from
Content(t, pos, complete, parts) ==
    [table |-> t, pos |-> pos, complete |-> complete, parts |-> parts]

Write(d, path, content) ==
    [p \in (DOMAIN d) \cup {path} |-> IF p = path THEN content ELSE d[p]]

\* input() has not been called
NoAnswer == [asked |-> FALSE, eof |-> FALSE, text |-> <<>>]

Progs == {"robust_fetch_table", "run_notebook", "fetch_all_tables",
          "fetch_all_tables_improved", "improved_main", "per_file_main",
          "direct_main"}
\* fetch_all_tables_improved runs on its own or called by main
ImprovedProgs == {"fetch_all_tables_improved", "improved_main"}
Delays == 1..DefaultDelay

\* datetime.now() is naive local time: since the last reading the local
\* clock stayed in the same second, moved on, or was set back to any
\* earlier reading (the end of daylight saving time, a corrected clock)
Ticks == (0 - clock)..1

\* the sample load of improved main was not made
NoLoad == [kind |-> "none", err |-> NoErr]

(***************************************************************************)
(* Initial states: one entry point is about to run on an empty output      *)
(* directory.  robust_fetch_table is also entered directly, with any       *)
(* max_retries and delay.                                                  *)
(***************************************************************************)
Init ==
    /\ prog \in Progs
    /\ catalog \in (IF prog = "robust_fetch_table" THEN { << T_Orders >> }
                    ELSE Catalogs)
    /\ max_retries \in (IF prog = "robust_fetch_table" THEN 0..MaxRetries ELSE {DefaultMaxRetries})
    /\ delay \in (IF prog = "robust_fetch_table" THEN Delays ELSE {DefaultDelay})
    /\ save \in (IF prog = "fetch_all_tables" THEN BOOLEAN ELSE {TRUE})
    /\ pc = IF prog = "robust_fetch_table" THEN "rft"
            ELSE IF prog = "improved_main" THEN "sample" ELSE "start"
    /\ rft_status = IF prog = "robust_fetch_table" THEN "running" ELSE "idle"
    /\ tables = <<>>
    /\ k = 0
    /\ started = <<>>
    /\ attempt = 0
    /\ calls = <<>>
    /\ slept = <<>>
    /\ rft_err = NoErr
    /\ all_dfs = {}
    /\ failed_tables = <<>>
    /\ successful_fetches = 0
    /\ disk = << >>
    /\ clock = 0
    /\ exc = NoErr
    /\ files = <<>>
    /\ fi = 0
    /\ processed = <<>>
    /\ saved_files = <<>>
    /\ ddf = {}
    /\ ftf_result = "idle"
    /\ ftf_why = "idle"
    /\ successful_tables = <<>>
    /\ returns = <<>>
    /\ nlisted = 0
    /\ sample_df = "unset"
    /\ est = <<>>
    /\ per_table_sizes = <<>>
    /\ total_bytes = 0
    /\ answer = NoAnswer
    /\ run = 1
    /\ disk1 = << >>
    /\ listings = <<>>
    /\ written = {}
    /\ list_raised = FALSE
    /\ fetched = <<>>
    /\ reads = <<>>
    /\ pauses = <<>>
    /\ sample_load = NoLoad
    /\ creds_file \in (IF prog = "direct_main" THEN CredFiles
                       ELSE { CredFile("ok", BearerShort) })
    /\ lc_result = "unset"

\* where an exception of the table listing takes the run: no handler
\* encloses the listing call, the exception ends the run
ListErrorSwallowed == "loop"
ListErrorEnds == "aborted"

orch_vars == << prog, creds_file, lc_result, catalog, tables, k, started, all_dfs, failed_tables,
                successful_fetches, save, disk, exc >>
ftf_vars == << files, fi, processed, saved_files, ddf, ftf_result, ftf_why,
               successful_tables, returns, nlisted >>
rft_params == << max_retries, delay >>
main_vars == << sample_df, est, per_table_sizes, total_bytes, answer >>
hist_vars == << run, disk1, listings, written, list_raised, fetched, reads, pauses,
               sample_load >>

(***************************************************************************)
(* robust_fetch_table(share, schema, table, max_retries, delay)            *)
(* run_notebook.py lines 20-48, 01_fetch_and_preview.py lines 27-55        *)
(***************************************************************************)
RFT_Running == pc = "rft" /\ rft_status = "running"

\* lines 31-32: the load returns, the function returns df
RFT_Success ==
    /\ RFT_Running
    /\ InRange(attempt, max_retries)
    /\ calls' = Append(calls, NoErr)
    /\ rft_status' = "returned_df"
    /\ UNCHANGED << pc, attempt, slept, rft_err, clock, orch_vars, ftf_vars, rft_params,
                    main_vars, hist_vars >>

\* lines 34-40: a retryable failure before the last attempt: sleep, continue
RFT_Retry ==
    /\ RFT_Running
    /\ InRange(attempt, max_retries)
    /\ \E e \in RemoteErrors :
        /\ IsRetryable(e)
        /\ MayRetry(attempt, max_retries)
        /\ calls' = Append(calls, e)
    /\ slept' = Append(slept, delay)
    /\ clock' = clock + 1
    /\ attempt' = NextAttempt(attempt)
    /\ UNCHANGED << pc, rft_status, rft_err, orch_vars, ftf_vars, rft_params,
                    main_vars, hist_vars >>

\* lines 41-43: a retryable failure on the last attempt: raise e
RFT_FinalFail ==
    /\ RFT_Running
    /\ InRange(attempt, max_retries)
    /\ \E e \in RemoteErrors :
        /\ IsRetryable(e)
        /\ ~MayRetry(attempt, max_retries)
        /\ calls' = Append(calls, e)
        /\ rft_err' = e
    /\ rft_status' = "raised"
    /\ UNCHANGED << pc, attempt, slept, clock, orch_vars, ftf_vars, rft_params,
                    main_vars, hist_vars >>

\* lines 44-46: any other failure: raise e
RFT_Fatal ==
    /\ RFT_Running
    /\ InRange(attempt, max_retries)
    /\ \E e \in RemoteErrors :
        /\ ~IsRetryable(e)
        /\ calls' = Append(calls, e)
        /\ rft_err' = e
    /\ rft_status' = "raised"
    /\ UNCHANGED << pc, attempt, slept, clock, orch_vars, ftf_vars, rft_params,
                    main_vars, hist_vars >>

\* line 48: the loop ends without a return or a raise: return None
RFT_FallThrough ==
    /\ RFT_Running
    /\ ~InRange(attempt, max_retries)
    /\ rft_status' = "returned_None"
    /\ UNCHANGED << pc, attempt, calls, slept, rft_err, clock, orch_vars, ftf_vars, rft_params,
                    main_vars, hist_vars >>

robust_fetch_table ==
    RFT_Success \/ RFT_Retry \/ RFT_FinalFail \/ RFT_Fatal \/ RFT_FallThrough

(***************************************************************************)
(* run_notebook.py: the module-level run, lines 50-94                      *)
(***************************************************************************)
\* line 52: tables = list_tables()
NB_ListTables ==
    /\ prog = "run_notebook" /\ pc = "start"
    /\ tables' = catalog
    /\ pc' = "loop"
    /\ UNCHANGED << prog, creds_file, lc_result, catalog, k, started, all_dfs, failed_tables, successful_fetches,
                    save, disk, exc, attempt, calls, slept, rft_status, rft_err, clock,
                    ftf_vars, rft_params,
                    main_vars, hist_vars >>

\* line 52: list_tables() raises; nothing catches it
NB_ListTablesRaises ==
    /\ prog = "run_notebook" /\ pc = "start"
    /\ \E e \in RemoteErrors : exc' = e
    /\ pc' = ListErrorEnds
    /\ list_raised' = TRUE
    /\ UNCHANGED << prog, creds_file, lc_result, catalog, tables, k, started, all_dfs, failed_tables,
                    successful_fetches, save, disk, attempt, calls, slept, rft_status,
                    rft_err, clock, ftf_vars, rft_params,
                    main_vars, pauses, sample_load, run, disk1, listings, written, fetched, reads >>

\* lines 64-69: the next table: call robust_fetch_table with its defaults
NB_Fetch ==
    /\ prog = "run_notebook" /\ pc = "loop"
    /\ k < Len(tables)
    /\ started' = Append(started, k + 1)
    /\ pc' = "rft"
    /\ rft_status' = "running"
    /\ attempt' = 0
    /\ calls' = <<>>
    /\ slept' = <<>>
    /\ rft_err' = NoErr
    /\ UNCHANGED << prog, creds_file, lc_result, catalog, tables, k, all_dfs, failed_tables, successful_fetches,
                    save, disk, exc, clock, ftf_vars, rft_params,
                    main_vars, hist_vars >>

\* history entry of one table: what its load gave ("df", "empty", "None",
\* "error"), the exception, and the number of load calls made for it
Fetched(res, err, attempts) == [res |-> res, err |-> err, attempts |-> attempts]

\* line 84: failed_tables.append((key, str(e)))
RecordFailure(ft, key, e) == Append(ft, << key, e.msg >>)

\* lines 70-78: df is not None: record it, then save it
NB_Saved ==
    /\ prog = "run_notebook" /\ pc = "rft" /\ rft_status = "returned_df"
    /\ all_dfs' = all_dfs \cup { Key(tables[k + 1]) }
    /\ \E d \in Ticks :
        /\ clock' = clock + d
        /\ disk' = Write(disk, ParquetPath(tables[k + 1].name, clock + d),
                         Content(tables[k + 1], 0, TRUE, {}))
    /\ k' = k + 1
    /\ pc' = "loop"
    /\ rft_status' = "idle"
    /\ calls' = <<>>
    /\ slept' = <<>>
    /\ attempt' = 0
    /\ fetched' = Append(fetched, Fetched("df", NoErr, Len(calls)))
    /\ written' = written \cup { ParquetPath(tables[k + 1].name, clock') }
    /\ UNCHANGED << prog, creds_file, lc_result, catalog, tables, started, failed_tables, successful_fetches,
                    save, exc, rft_err, ftf_vars, rft_params,
                    main_vars, pauses, sample_load, run, disk1, listings, list_raised, reads >>

\* lines 70-77 and 82-84: df is recorded, to_parquet raises, the handler records the failure
NB_SaveFails ==
    /\ prog = "run_notebook" /\ pc = "rft" /\ rft_status = "returned_df"
    /\ all_dfs' = all_dfs \cup { Key(tables[k + 1]) }
    /\ failed_tables' = RecordFailure(failed_tables, Key(tables[k + 1]), E_Disk)
    /\ \E d \in Ticks : clock' = clock + d
    /\ k' = k + 1
    /\ pc' = "loop"
    /\ rft_status' = "idle"
    /\ calls' = <<>>
    /\ slept' = <<>>
    /\ attempt' = 0
    /\ fetched' = Append(fetched, Fetched("df", NoErr, Len(calls)))
    /\ UNCHANGED << prog, creds_file, lc_result, catalog, tables, started, successful_fetches, save, disk, exc,
                    rft_err, ftf_vars, rft_params,
                    main_vars, pauses, sample_load, run, disk1, listings, written, list_raised, reads >>

\* lines 79-84: robust_fetch_table raised, or returned None and line 80 raises
NB_Failed ==
    /\ prog = "run_notebook" /\ pc = "rft" /\ rft_status \in {"raised", "returned_None"}
    /\ failed_tables' = RecordFailure(failed_tables, Key(tables[k + 1]),
                                      IF rft_status = "raised" THEN rft_err ELSE E_AfterRetries)
    /\ k' = k + 1
    /\ pc' = "loop"
    /\ rft_status' = "idle"
    /\ rft_err' = NoErr
    /\ calls' = <<>>
    /\ slept' = <<>>
    /\ attempt' = 0
    /\ fetched' = Append(fetched, Fetched(IF rft_status = "raised" THEN "error" ELSE "None",
                                           rft_err, Len(calls)))
    /\ UNCHANGED << prog, creds_file, lc_result, catalog, tables, started, all_dfs, successful_fetches, save, disk,
                    exc, clock, ftf_vars, rft_params,
                    main_vars, pauses, sample_load, run, disk1, listings, written, list_raised, reads >>

\* lines 86-94: the loop is over: report
NB_Report ==
    /\ prog = "run_notebook" /\ pc = "loop"
    /\ k >= Len(tables)
    /\ pc' = "done"
    /\ UNCHANGED << prog, creds_file, lc_result, catalog, tables, k, started, all_dfs, failed_tables,
                    successful_fetches, save, disk, exc, attempt, calls, slept, rft_status,
                    rft_err, clock, ftf_vars, rft_params,
                    main_vars, hist_vars >>

run_notebook ==
    NB_ListTables \/ NB_ListTablesRaises \/ NB_Fetch \/ NB_Saved \/ NB_SaveFails
        \/ NB_Failed \/ NB_Report

(***************************************************************************)
(* src/fetch_data.py: fetch_table (lines 15-30) and fetch_all_tables       *)
(* (lines 32-48).  Nothing in either catches an exception.                 *)
(***************************************************************************)
rft_idle == << max_retries, delay, attempt, calls, slept, rft_status, rft_err >>

\* lines 38-39: the client is built and the tables are listed
FA_ListTables ==
    /\ prog = "fetch_all_tables" /\ pc = "start"
    /\ tables' = catalog
    /\ pc' = "loop"
    /\ UNCHANGED << prog, creds_file, lc_result, catalog, k, started, all_dfs, failed_tables, successful_fetches,
                    save, disk, exc, clock, ftf_vars, rft_idle,
                    main_vars, hist_vars >>

\* lines 38-39: building the client or listing raises
FA_ListTablesRaises ==
    /\ prog = "fetch_all_tables" /\ pc = "start"
    /\ \E e \in RemoteErrors : exc' = e
    /\ pc' = ListErrorEnds
    /\ list_raised' = TRUE
    /\ UNCHANGED << prog, creds_file, lc_result, catalog, tables, k, started, all_dfs, failed_tables,
                    successful_fetches, save, disk, clock, ftf_vars, rft_idle,
                    main_vars, pauses, sample_load, run, disk1, listings, written, fetched, reads >>

\* lines 42-46 with fetch_table lines 21-30: load, save if asked, then dfs[key] = df
FA_Fetch ==
    /\ prog = "fetch_all_tables" /\ pc = "loop"
    /\ k < Len(tables)
    /\ started' = Append(started, k + 1)
    /\ IF save
       THEN \E d \in Ticks :
               /\ clock' = clock + d
               /\ disk' = Write(disk, ParquetPath(tables[k + 1].name, clock + d),
                                Content(tables[k + 1], 0, TRUE, {}))
       ELSE UNCHANGED << clock, disk >>
    /\ all_dfs' = all_dfs \cup { Key(tables[k + 1]) }
    /\ k' = k + 1
    /\ fetched' = Append(fetched, Fetched("df", NoErr, 1))
    /\ written' = IF save THEN written \cup { ParquetPath(tables[k + 1].name, clock') } ELSE written
    /\ UNCHANGED << prog, creds_file, lc_result, pc, catalog, tables, failed_tables, successful_fetches, save, exc,
                    ftf_vars, rft_idle,
                    main_vars, pauses, sample_load, run, disk1, listings, list_raised, reads >>

\* fetch_table line 22: load_as_pandas raises; the exception leaves fetch_all_tables
FA_LoadRaises ==
    /\ prog = "fetch_all_tables" /\ pc = "loop"
    /\ k < Len(tables)
    /\ started' = Append(started, k + 1)
    /\ \E e \in RemoteErrors :
        /\ exc' = e
        /\ fetched' = Append(fetched, Fetched("error", e, 1))
    /\ pc' = "aborted"
    /\ UNCHANGED << prog, creds_file, lc_result, catalog, tables, k, all_dfs, failed_tables, successful_fetches,
                    save, disk, clock, ftf_vars, rft_idle,
                    main_vars, pauses, sample_load, run, disk1, listings, written, list_raised, reads >>

\* fetch_table line 27: to_parquet raises; the exception leaves fetch_all_tables
FA_SaveRaises ==
    /\ prog = "fetch_all_tables" /\ pc = "loop"
    /\ k < Len(tables)
    /\ save
    /\ started' = Append(started, k + 1)
    /\ \E d \in Ticks : clock' = clock + d
    /\ exc' = E_Disk
    /\ pc' = "aborted"
    /\ fetched' = Append(fetched, Fetched("df", NoErr, 1))
    /\ UNCHANGED << prog, creds_file, lc_result, catalog, tables, k, all_dfs, failed_tables, successful_fetches,
                    save, disk, ftf_vars, rft_idle,
                    main_vars, pauses, sample_load, run, disk1, listings, written, list_raised, reads >>

\* line 48: return dfs
FA_Return ==
    /\ prog = "fetch_all_tables" /\ pc = "loop"
    /\ k >= Len(tables)
    /\ pc' = "done"
    /\ UNCHANGED << prog, creds_file, lc_result, catalog, tables, k, started, all_dfs, failed_tables,
                    successful_fetches, save, disk, exc, clock, ftf_vars, rft_idle,
                    main_vars, hist_vars >>

fetch_all_tables ==
    FA_ListTables \/ FA_ListTablesRaises \/ FA_Fetch \/ FA_LoadRaises \/ FA_SaveRaises
        \/ FA_Return

(***************************************************************************)
(* notebooks/improved_data_fetch.py: fetch_table_with_timeout (lines       *)
(* 106-134) and fetch_all_tables_improved (lines 171-210)                  *)
(***************************************************************************)
\* what delta_sharing.load_as_pandas can do: return a dataframe with rows,
\* return an empty dataframe, or raise
LoadOutcomes ==
    { [kind |-> "df", err |-> NoErr], [kind |-> "empty", err |-> NoErr] }
        \cup { [kind |-> "error", err |-> e] : e \in RemoteErrors }

\* lines 108-134: the dataframe if it is not None and not empty, None otherwise
fetch_table_with_timeout(o) == IF o.kind = "df" THEN "df" ELSE "None"

\* line 203: if i < len(tables): time.sleep(2)
SleepsAfter(i, n) == i < n

\* a time.sleep(secs) of the table loop after table i
Pause(i, secs) == [after |-> i, secs |-> secs]
\* lines 203-204
PausesAfter(ps, i, n) == IF SleepsAfter(i, n) THEN Append(ps, Pause(i, TableDelay)) ELSE ps

\* lines 176-177 with test_connection lines 28-38: True, go on
IM_TestConnection ==
    /\ prog \in ImprovedProgs /\ pc = "start"
    /\ pc' = "list"
    /\ UNCHANGED << prog, creds_file, lc_result, catalog, tables, k, started, all_dfs, failed_tables,
                    successful_fetches, save, disk, exc, clock, ftf_vars, rft_idle,
                    main_vars, hist_vars >>

\* lines 176-177: test_connection caught an exception and returned False: return {}
IM_NoConnection ==
    /\ prog \in ImprovedProgs /\ pc = "start"
    /\ pc' = "done"
    /\ UNCHANGED << prog, creds_file, lc_result, catalog, tables, k, started, all_dfs, failed_tables,
                    successful_fetches, save, disk, exc, clock, ftf_vars, rft_idle,
                    main_vars, hist_vars >>

\* line 179: tables = list_tables()
IM_ListTables ==
    /\ prog \in ImprovedProgs /\ pc = "list"
    /\ tables' = catalog
    /\ pc' = "loop"
    /\ UNCHANGED << prog, creds_file, lc_result, catalog, k, started, all_dfs, failed_tables, successful_fetches,
                    save, disk, exc, clock, ftf_vars, rft_idle,
                    main_vars, hist_vars >>

\* line 179: list_tables() raises; nothing catches it
IM_ListTablesRaises ==
    /\ prog \in ImprovedProgs /\ pc = "list"
    /\ \E e \in RemoteErrors : exc' = e
    /\ pc' = ListErrorEnds
    /\ list_raised' = TRUE
    /\ UNCHANGED << prog, creds_file, lc_result, catalog, tables, k, started, all_dfs, failed_tables,
                    successful_fetches, save, disk, clock, ftf_vars, rft_idle,
                    main_vars, pauses, sample_load, run, disk1, listings, written, fetched, reads >>

\* lines 187-204: a dataframe came back: record, count, save, sleep unless last
IM_Fetched ==
    /\ prog \in ImprovedProgs /\ pc = "loop"
    /\ k < Len(tables)
    /\ started' = Append(started, k + 1)
    /\ \E o \in LoadOutcomes :
        /\ fetch_table_with_timeout(o) = "df"
        /\ all_dfs' = all_dfs \cup { Key(tables[k + 1]) }
        /\ successful_fetches' = successful_fetches + 1
    /\ \E d \in Ticks :
        /\ disk' = Write(disk, ParquetPath(tables[k + 1].name, clock + d),
                         Content(tables[k + 1], 0, TRUE, {}))
        /\ written' = written \cup { ParquetPath(tables[k + 1].name, clock + d) }
        /\ clock' = clock + d + (IF SleepsAfter(k + 1, Len(tables)) THEN 1 ELSE 0)
    /\ k' = k + 1
    /\ fetched' = Append(fetched, Fetched("df", NoErr, 1))
    /\ pauses' = PausesAfter(pauses, k + 1, Len(tables))
    /\ UNCHANGED << prog, creds_file, lc_result, pc, catalog, tables, failed_tables, save, exc, ftf_vars, rft_idle,
                    main_vars, sample_load, run, disk1, listings, list_raised, reads >>

\* lines 192-199: a dataframe came back and was recorded, to_parquet raises;
\* the exception leaves fetch_all_tables_improved
IM_SaveRaises ==
    /\ prog \in ImprovedProgs /\ pc = "loop"
    /\ k < Len(tables)
    /\ started' = Append(started, k + 1)
    /\ \E o \in LoadOutcomes :
        /\ fetch_table_with_timeout(o) = "df"
        /\ all_dfs' = all_dfs \cup { Key(tables[k + 1]) }
        /\ successful_fetches' = successful_fetches + 1
    /\ \E d \in Ticks : clock' = clock + d
    /\ exc' = E_Disk
    /\ pc' = "aborted"
    /\ fetched' = Append(fetched, Fetched("df", NoErr, 1))
    /\ UNCHANGED << prog, creds_file, lc_result, catalog, tables, k, failed_tables, save, disk, ftf_vars, rft_idle,
                    main_vars, pauses, sample_load, run, disk1, listings, written, list_raised, reads >>

\* lines 187-204: fetch_table_with_timeout returned None: nothing is recorded
IM_NotFetched ==
    /\ prog \in ImprovedProgs /\ pc = "loop"
    /\ k < Len(tables)
    /\ started' = Append(started, k + 1)
    /\ \E o \in LoadOutcomes :
        /\ fetch_table_with_timeout(o) = "None"
        /\ fetched' = Append(fetched, Fetched(o.kind, o.err, 1))
    /\ clock' = clock + (IF SleepsAfter(k + 1, Len(tables)) THEN 1 ELSE 0)
    /\ k' = k + 1
    /\ pauses' = PausesAfter(pauses, k + 1, Len(tables))
    /\ UNCHANGED << prog, creds_file, lc_result, pc, catalog, tables, all_dfs, failed_tables, successful_fetches,
                    save, disk, exc, ftf_vars, rft_idle,
                    main_vars, sample_load, run, disk1, listings, written, list_raised, reads >>

\* lines 206-210: summary, return all_dfs
IM_Return ==
    /\ prog \in ImprovedProgs /\ pc = "loop"
    /\ k >= Len(tables)
    /\ pc' = "done"
    /\ UNCHANGED << prog, creds_file, lc_result, catalog, tables, k, started, all_dfs, failed_tables,
                    successful_fetches, save, disk, exc, clock, ftf_vars, rft_idle,
                    main_vars, hist_vars >>

fetch_all_tables_improved ==
    IM_TestConnection \/ IM_NoConnection \/ IM_ListTables \/ IM_ListTablesRaises
        \/ IM_Fetched \/ IM_SaveRaises \/ IM_NotFetched \/ IM_Return

(***************************************************************************)
(* notebooks/improved_data_fetch.py: estimate_table_size_bytes (lines      *)
(* 52-70), preflight_estimate_and_confirm (lines 73-103),                  *)
(* fetch_single_table_sample (lines 137-168) and main (lines 213-245)      *)
(***************************************************************************)
\* a file descriptor of a list_files_in_table response; has_size is FALSE
\* when the descriptor carries no size attribute
FileDesc(has_size, size) == [has_size |-> has_size, size |-> size]

\* remote state: resp.add_files for each table
RemoteFiles(t) ==
    IF t = T_Orders THEN << FileDesc(TRUE, 3), FileDesc(TRUE, 5) >>
    ELSE IF t = T_Orders2 THEN << FileDesc(TRUE, 7), FileDesc(FALSE, 0) >>
    ELSE <<>>

\* line 67: getattr(f, "size", 0)
GetSize(f) == IF f.has_size THEN f.size ELSE 0

\* line 68: int(sum(sizes))
RECURSIVE SumSizes(_)
SumSizes(fs) == IF fs = <<>> THEN 0 ELSE GetSize(Head(fs)) + SumSizes(Tail(fs))

\* line 58: t.share == share and t.schema == schema and t.name == table
MatchesByName(t, share, schema, table) == t.name = table
Matches(t, share, schema, table) == t.share = share /\ t.schema = schema /\ t.name = table

\* a listing without table t (the table was dropped from the share)
RECURSIVE Without(_, _)
Without(l, t) ==
    IF l = <<>> THEN <<>>
    ELSE (IF Head(l) = t THEN <<>> ELSE << Head(l) >>) \o Without(Tail(l), t)

\* what the remote calls of one estimate can do: which call raises (if any)
\* and what list_all_tables returns
EstOutcomes(t) ==
    { [fail |-> "client", listing |-> <<>>],
      [fail |-> "list_tables", listing |-> <<>>],
      [fail |-> "list_files", listing |-> catalog],
      [fail |-> "none", listing |-> catalog],
      [fail |-> "none", listing |-> Without(catalog, t)] }

\* lines 54-70
estimate_table_size_bytes_sentinel(share, schema, table, o) ==
    IF o.fail \in {"client", "list_tables"} THEN 0 - 1
    ELSE LET m == { i \in DOMAIN o.listing : Matches(o.listing[i], share, schema, table) }
         IN  IF m = {} THEN 0
             ELSE IF o.fail = "list_files" THEN 0 - 1
             ELSE SumSizes(RemoteFiles(o.listing[CHOOSE i \in m : \A j \in m : i <= j]))
estimate_table_size_bytes(share, schema, table, o) ==
    IF o.fail \in {"client", "list_tables"} THEN 0
    ELSE LET m == { i \in DOMAIN o.listing : Matches(o.listing[i], share, schema, table) }
         IN  IF m = {} THEN 0
             ELSE IF o.fail = "list_files" THEN 0
             ELSE SumSizes(RemoteFiles(o.listing[CHOOSE i \in m : \A j \in m : i <= j]))

\* str.strip() and str.lower(). A character is the string that holds it; the
\* grave accent and the white space from U+2000 on, which a string of this
\* language cannot hold, are written by their code points. The answers are
\* made of the printable characters of Latin-1 and of white space;
\* str.lower() is not defined here on any other character.
\*
\* the characters str.strip() removes, those of str.isspace(): U+0009 to
\* U+000D, U+001C to U+001F, U+0020, U+0085, U+00A0, U+1680, U+2000 to U+200A,
\* U+2028, U+2029, U+202F, U+205F, U+3000
Whitespace ==
    { "\t", "\n", "", "\f", "\r", "", "", "", "", " ",
      "", " ", " ", "U+2000", "U+2001", "U+2002", "U+2003", "U+2004", "U+2005", "U+2006",
      "U+2007", "U+2008", "U+2009", "U+200A", "U+2028", "U+2029", "U+202F", "U+205F", "U+3000" }
\* the characters str.lower() changes, and what it makes of them
UpperCase == << "A", "B", "C", "D", "E", "F", "G", "H", "I", "J", "K", "L", "M", "N",
              "O", "P", "Q", "R", "S", "T", "U", "V", "W", "X", "Y", "Z", "À", "Á",
              "Â", "Ã", "Ä", "Å", "Æ", "Ç", "È", "É", "Ê", "Ë", "Ì", "Í", "Î", "Ï",
              "Ð", "Ñ", "Ò", "Ó", "Ô", "Õ", "Ö", "Ø", "Ù", "Ú", "Û", "Ü", "Ý", "Þ" >>
LowerCase == << "a", "b", "c", "d", "e", "f", "g", "h", "i", "j", "k", "l", "m", "n",
              "o", "p", "q", "r", "s", "t", "u", "v", "w", "x", "y", "z", "à", "á",
              "â", "ã", "ä", "å", "æ", "ç", "è", "é", "ê", "ë", "ì", "í", "î", "ï",
              "ð", "ñ", "ò", "ó", "ô", "õ", "ö", "ø", "ù", "ú", "û", "ü", "ý", "þ" >>
\* the characters str.lower() leaves as they are
Unchanged ==
    Whitespace \cup
    { "!", "\"", "#", "$", "%", "&", "'", "(", ")", "*", "+", ",", "-", ".", "/", "0",
      "1", "2", "3", "4", "5", "6", "7", "8", "9", ":", ";", "<", "=", ">", "?", "@",
      "[", "\\", "]", "^", "_", "U+0060", "a", "b", "c", "d", "e", "f", "g", "h", "i", "j",
      "k", "l", "m", "n", "o", "p", "q", "r", "s", "t", "u", "v", "w", "x", "y", "z",
      "{", "|", "}", "~", "¡", "¢", "£", "¤", "¥", "¦", "§", "¨", "©", "ª", "«", "¬",
      "­", "®", "¯", "°", "±", "²", "³", "´", "µ", "¶", "·", "¸", "¹", "º", "»", "¼",
      "½", "¾", "¿", "×", "ß", "à", "á", "â", "ã", "ä", "å", "æ", "ç", "è", "é", "ê",
      "ë", "ì", "í", "î", "ï", "ð", "ñ", "ò", "ó", "ô", "õ", "ö", "÷", "ø", "ù", "ú",
      "û", "ü", "ý", "þ", "ÿ" }
LowerChar(c) ==
    CASE \E i \in DOMAIN UpperCase : UpperCase[i] = c ->
             LowerCase[CHOOSE i \in DOMAIN UpperCase : UpperCase[i] = c]
      [] c \in Unchanged -> c
Lower(s) == [i \in DOMAIN s |-> LowerChar(s[i])]
RECURSIVE LStrip(_)
LStrip(s) == IF s # <<>> /\ Head(s) \in Whitespace THEN LStrip(Tail(s)) ELSE s
RECURSIVE RStrip(_)
RStrip(s) ==
    IF s # <<>> /\ s[Len(s)] \in Whitespace THEN RStrip(SubSeq(s, 1, Len(s) - 1)) ELSE s
Strip(s) == RStrip(LStrip(s))

S_y == <<"y">>
S_yes == <<"y","e","s">>
S_n == <<"n">>

\* what input() can do: return a line, or raise EOFError
Answers ==
    { [asked |-> TRUE, eof |-> TRUE, text |-> <<>>] }
        \cup { [asked |-> TRUE, eof |-> FALSE, text |-> x] :
                 x \in { <<"y">>, <<"Y">>, <<" ","Y","e","s"," ">>, <<"Y","E","S","\t">>,
                         <<"y","\r">>, <<"\f","Y","E","S","U+3000">>,
                         <<"n">>, <<>>, <<"y","e">>, <<"y"," ","e","s">>, <<"Ý","É","S">> } }

\* lines 95-100: answer = input(...).strip().lower(), "n" on EOFError;
\* proceed = answer in ("y", "yes")
ProceedUnlessNo(a) == (IF a.eof THEN S_n ELSE Lower(Strip(a.text))) # S_n
Proceed(a) == (IF a.eof THEN S_n ELSE Lower(Strip(a.text))) \in {S_y, S_yes}

S_sample == <<"s","a","m","p","l","e","_">>

\* line 162: RAW_DIR / f"sample_{first_table.name}_{timestamp}.parquet"
SamplePath(name, ts) ==
    [dir |-> RAW_DIR, file |-> S_sample \o name \o <<"_">> \o StrfTime(ts) \o S_parquet]

im_idle == << tables, k, started, all_dfs, failed_tables, successful_fetches, save >>

\* line 142: list_tables() raises in fetch_single_table_sample; nothing catches it
MAIN_SampleListRaises ==
    /\ prog = "improved_main" /\ pc = "sample"
    /\ \E e \in RemoteErrors : exc' = e
    /\ list_raised' = TRUE
    /\ pc' = ListErrorEnds
    /\ UNCHANGED << prog, creds_file, lc_result, catalog, disk, clock, im_idle, rft_idle, ftf_vars, main_vars,
                    pauses, sample_load, run, disk1, listings, written, fetched, reads >>

\* lines 221 and 244-245: main goes on to the preflight if the sample is not
\* None, and ends otherwise
AfterSampleAlways(df) == "pre_list"
AfterSample(df) == IF df # "None" THEN "pre_list" ELSE "done"

\* lines 142-145 and 221: no table is listed: the sample is None
MAIN_SampleNoTable ==
    /\ prog = "improved_main" /\ pc = "sample"
    /\ catalog = <<>>
    /\ sample_df' = "None"
    /\ pc' = AfterSample("None")
    /\ UNCHANGED << prog, creds_file, lc_result, catalog, disk, clock, exc, im_idle, rft_idle, ftf_vars,
                    est, per_table_sizes, total_bytes, answer, hist_vars >>

\* lines 142-152, 168 and 221: the fetch of the first table returned None:
\* the sample is None
MAIN_SampleNone ==
    /\ prog = "improved_main" /\ pc = "sample"
    /\ catalog # <<>>
    /\ \E o \in LoadOutcomes :
        /\ fetch_table_with_timeout(o) = "None"
        /\ sample_load' = o
        /\ sample_df' = fetch_table_with_timeout(o)
        /\ pc' = AfterSample(fetch_table_with_timeout(o))
    /\ UNCHANGED << prog, creds_file, lc_result, catalog, disk, clock, exc, im_idle, rft_idle, ftf_vars,
                    est, per_table_sizes, total_bytes, answer,
                    run, disk1, listings, written, list_raised, fetched, reads, pauses >>

\* lines 142-166 and 221: the first table is fetched and saved as the sample
MAIN_SampleSaved ==
    /\ prog = "improved_main" /\ pc = "sample"
    /\ catalog # <<>>
    /\ \E o \in LoadOutcomes :
        /\ fetch_table_with_timeout(o) = "df"
        /\ sample_load' = o
        /\ sample_df' = fetch_table_with_timeout(o)
        /\ pc' = AfterSample(fetch_table_with_timeout(o))
    /\ \E d \in Ticks :
        /\ clock' = clock + d
        /\ disk' = Write(disk, SamplePath(catalog[1].name, clock + d),
                         Content(catalog[1], 0, TRUE, {}))
    /\ written' = written \cup { SamplePath(catalog[1].name, clock') }
    /\ UNCHANGED << prog, creds_file, lc_result, catalog, exc, im_idle, rft_idle, ftf_vars,
                    est, per_table_sizes, total_bytes, answer, pauses, run, disk1, listings, list_raised, fetched, reads >>

\* lines 150-163: the first table is fetched, to_parquet raises; nothing catches it
MAIN_SampleSaveRaises ==
    /\ prog = "improved_main" /\ pc = "sample"
    /\ catalog # <<>>
    /\ \E o \in LoadOutcomes :
        /\ fetch_table_with_timeout(o) = "df"
        /\ sample_load' = o
    /\ \E d \in Ticks : clock' = clock + d
    /\ exc' = E_Disk
    /\ pc' = "aborted"
    /\ UNCHANGED << prog, creds_file, lc_result, catalog, disk, im_idle, rft_idle, ftf_vars, main_vars,
                    run, disk1, listings, written, list_raised, fetched, reads, pauses >>

\* lines 75-78: tables = list_tables(); return False when it is empty
PRE_ListTables ==
    /\ prog = "improved_main" /\ pc = "pre_list"
    /\ tables' = catalog
    /\ pc' = IF catalog = <<>> THEN "done" ELSE "estimate"
    /\ UNCHANGED << prog, creds_file, lc_result, catalog, k, started, all_dfs, failed_tables, successful_fetches,
                    save, disk, clock, exc, rft_idle, ftf_vars, main_vars, hist_vars >>

\* line 75: list_tables() raises; nothing catches it
PRE_ListTablesRaises ==
    /\ prog = "improved_main" /\ pc = "pre_list"
    /\ \E e \in RemoteErrors : exc' = e
    /\ list_raised' = TRUE
    /\ pc' = ListErrorEnds
    /\ UNCHANGED << prog, creds_file, lc_result, catalog, disk, clock, im_idle, rft_idle, ftf_vars, main_vars,
                    pauses, sample_load, run, disk1, listings, written, fetched, reads >>

\* lines 83-86: the next table is estimated and added to the total
PRE_Estimate ==
    /\ prog = "improved_main" /\ pc = "estimate"
    /\ Len(per_table_sizes) < Len(tables)
    /\ LET t == tables[Len(per_table_sizes) + 1]
       IN  \E o \in EstOutcomes(t) :
              LET size_bytes == estimate_table_size_bytes(t.share, t.schema, t.name, o)
              IN  /\ total_bytes' = total_bytes + size_bytes
                  /\ per_table_sizes' = Append(per_table_sizes, << t, size_bytes >>)
                  /\ est' = Append(est, o)
    /\ UNCHANGED << prog, creds_file, lc_result, pc, catalog, disk, clock, exc, im_idle, rft_idle, ftf_vars,
                    sample_df, answer, hist_vars >>

\* lines 88-103 and 224-228: the sizes are shown, the operator is asked, the
\* function returns (its locals are gone); main calls
\* fetch_all_tables_improved if it returned True
PRE_Answer ==
    /\ prog = "improved_main" /\ pc = "estimate"
    /\ Len(per_table_sizes) >= Len(tables)
    /\ \E a \in Answers :
        /\ answer' = a
        /\ pc' = IF Proceed(a) THEN "start" ELSE "done"
    /\ tables' = <<>>
    /\ per_table_sizes' = <<>>
    /\ total_bytes' = 0
    /\ est' = <<>>
    /\ UNCHANGED << prog, creds_file, lc_result, catalog, disk, clock, exc, k, started, all_dfs, failed_tables,
                    successful_fetches, save, rft_idle, ftf_vars, sample_df, hist_vars >>

improved_main ==
    MAIN_SampleListRaises \/ MAIN_SampleNoTable \/ MAIN_SampleNone \/ MAIN_SampleSaved \/ MAIN_SampleSaveRaises
        \/ PRE_ListTables \/ PRE_ListTablesRaises \/ PRE_Estimate \/ PRE_Answer

(***************************************************************************)
(* notebooks/fetch_data.py (per-file mode): fetch_table_files (lines       *)
(* 49-134) and main (lines 140-183)                                        *)
(***************************************************************************)
S_exports ==
    <<"d","e","l","t","a","_","s","h","a","r","i","n","g","_","e","x","p","o","r","t","s",
      "_","c","s","v">>

\* lines 157 and 68: table_dir = RAW_DIR / "delta_sharing_exports_csv" / table.name
TableDir(name) == RAW_DIR \o << S_exports, name >>

\* line 92: table_dir / f"{table.name}_part_{i:02d}.csv"
PartPathFromZero(name, i) ==
    [dir |-> TableDir(name),
     file |-> name \o S_part \o ZeroPad(DecStr(i - 1), PadWidth) \o S_csv]
PartPath(name, i) ==
    [dir |-> TableDir(name), file |-> name \o S_part \o ZeroPad(DecStr(i), PadWidth) \o S_csv]

\* line 121: table_dir / f"{table.name}_combined_{timestamp}.csv"
CombinedPath(name, ts) ==
    [dir |-> TableDir(name), file |-> name \o S_combined \o StrfTime(ts) \o S_csv]

StartsWith(s, pre) == Len(s) >= Len(pre) /\ SubSeq(s, 1, Len(pre)) = pre
EndsWith(s, suf) == Len(s) >= Len(suf) /\ SubSeq(s, Len(s) - Len(suf) + 1, Len(s)) = suf

\* lines 111-112: the files dd.read_csv(table_dir / f"{table.name}_part_*.csv") reads
GlobParts(d, name) ==
    { p \in DOMAIN d :
        /\ p.dir = TableDir(name)
        /\ Len(p.file) >= Len(name \o S_part) + Len(S_csv)
        /\ StartsWith(p.file, name \o S_part)
        /\ EndsWith(p.file, S_csv) }

\* line 109: if saved_files
HasSavedAlways(saved) == TRUE
HasSaved(saved) == saved # <<>>

\* lines 102-104: what the handler of a failed file does with the loop
AfterFileErrorBreak(n, i) == n
AfterFileError(n, i) == i

\* the stages of lines 80-93 at which a file can fail
FileStages == {"download", "decode", "write"}

\* lines 80-81: what requests.get / raise_for_status can raise
DownloadErrors == {E_401, E_Timeout}

ftf_idle == << files, fi, processed, saved_files, ddf, ftf_result, ftf_why >>

\* the file listing of table i was answered before (the remote state does
\* not change)
Seen(i) == i <= Len(listings) /\ listings[i] >= 0
\* line 61: the numbers of files the listing of table i can hold
FileCounts(i) == IF Seen(i) THEN { listings[i] } ELSE 0..(MaxFiles - nlisted)

\* lines 145-158: client, listing, base directory; lines 152-154: with an
\* empty listing main returns at once, before the loop and the summary
PF_Start ==
    /\ prog = "per_file_main" /\ pc = "start"
    /\ tables' = catalog
    /\ pc' = IF catalog = <<>> THEN "returned" ELSE "loop"
    /\ UNCHANGED << prog, creds_file, lc_result, catalog, k, started, all_dfs, failed_tables, successful_fetches,
                    save, disk, exc, clock, ftf_idle, successful_tables, returns, nlisted, rft_idle,
                    main_vars, hist_vars >>

\* lines 146-158: building the client, listing or creating the base directory raises
PF_StartRaises ==
    /\ prog = "per_file_main" /\ pc = "start"
    /\ \E e \in RemoteErrors \cup (IF catalog = <<>> THEN {} ELSE {E_Disk}) :
        /\ exc' = e
        /\ tables' = IF e = E_Disk THEN catalog ELSE tables
    /\ pc' = IF exc' = E_Disk THEN "aborted" ELSE ListErrorEnds
    /\ list_raised' = (exc' # E_Disk)
    /\ UNCHANGED << prog, creds_file, lc_result, catalog, k, started, all_dfs, failed_tables, successful_fetches,
                    save, disk, clock, ftf_idle, successful_tables, returns, nlisted, rft_idle,
                    main_vars, pauses, sample_load, run, disk1, listings, written, fetched, reads >>

\* lines 162-167 and 58-71: the next table; its files are listed (their
\* number is one of `counts`), its directory exists
ListFiles(counts) ==
    /\ prog = "per_file_main" /\ pc = "loop"
    /\ k < Len(tables)
    /\ started' = Append(started, k + 1)
    /\ \E n \in counts :
        /\ n > 0
        /\ files' = [i \in 1..n |-> [url |-> << Key(tables[k + 1]), i >>]]
        /\ nlisted' = IF Seen(k + 1) THEN nlisted ELSE nlisted + n
        /\ listings' = IF Seen(k + 1) THEN listings ELSE Append(listings, n)
    /\ fi' = 0
    /\ processed' = <<>>
    /\ saved_files' = <<>>
    /\ ftf_result' = "running"
    /\ ftf_why' = "running"
    /\ pc' = "files"
    /\ UNCHANGED << prog, creds_file, lc_result, catalog, tables, k, all_dfs, failed_tables, successful_fetches,
                    save, disk, exc, clock, ddf, successful_tables, returns, rft_idle,
                    main_vars, pauses, sample_load, run, disk1, written, list_raised, fetched, reads >>

PF_ListFiles == ListFiles(FileCounts(k + 1))

\* the same call for a table of many files
PF_ListManyFiles == ListFiles(1..MaxPartFiles)

\* lines 64-66: the listing is empty: return None
PF_NoFiles ==
    /\ prog = "per_file_main" /\ pc = "loop"
    /\ k < Len(tables)
    /\ 0 \in FileCounts(k + 1)
    /\ started' = Append(started, k + 1)
    /\ listings' = IF Seen(k + 1) THEN listings ELSE Append(listings, 0)
    /\ ftf_result' = "None"
    /\ ftf_why' = "no_files"
    /\ pc' = "ret"
    /\ UNCHANGED << prog, creds_file, lc_result, catalog, tables, k, all_dfs, failed_tables, successful_fetches,
                    save, disk, exc, clock, files, fi, processed, saved_files, ddf,
                    successful_tables, returns, nlisted, rft_idle,
                    main_vars, pauses, sample_load, run, disk1, written, list_raised, fetched, reads >>

\* lines 60-69 and 132-134: list_files_in_table or mkdir raises: caught, return None
PF_ListFilesRaises ==
    /\ prog = "per_file_main" /\ pc = "loop"
    /\ k < Len(tables)
    /\ started' = Append(started, k + 1)
    /\ listings' = IF k + 1 <= Len(listings) THEN listings ELSE Append(listings, 0 - 1)
    /\ ftf_result' = "None"
    /\ ftf_why' = "exception"
    /\ pc' = "ret"
    /\ UNCHANGED << prog, creds_file, lc_result, catalog, tables, k, all_dfs, failed_tables, successful_fetches,
                    save, disk, exc, clock, files, fi, processed, saved_files, ddf,
                    successful_tables, returns, nlisted, rft_idle,
                    main_vars, pauses, sample_load, run, disk1, written, list_raised, fetched, reads >>

\* lines 73-100: file i is downloaded, decoded, written and recorded
PF_FileOk ==
    /\ prog = "per_file_main" /\ pc = "files"
    /\ fi < Len(files)
    /\ disk' = Write(disk, PartPath(tables[k + 1].name, fi + 1),
                     Content(tables[k + 1], fi + 1, TRUE, {}))
    /\ saved_files' = Append(saved_files, PartPath(tables[k + 1].name, fi + 1))
    /\ processed' = Append(processed, "ok")
    /\ fi' = fi + 1
    /\ reads' = Append(reads, [url |-> files[fi + 1].url, err |-> NoErr])
    /\ written' = written \cup { PartPath(tables[k + 1].name, fi + 1) }
    /\ UNCHANGED << prog, creds_file, lc_result, pc, catalog, tables, k, started, all_dfs, failed_tables,
                    successful_fetches, save, exc, clock, files, ddf, ftf_result, ftf_why,
                    successful_tables, returns, nlisted, rft_idle,
                    main_vars, pauses, sample_load, run, disk1, listings, list_raised, fetched >>

\* lines 78-93 and 102-104: file i fails at some stage: logged, continue;
\* a failed write may leave what it had written so far
PF_FileFails ==
    /\ prog = "per_file_main" /\ pc = "files"
    /\ fi < Len(files)
    /\ \E stage \in FileStages :
        /\ processed' = Append(processed, stage)
        /\ \E e \in (IF stage = "download" THEN DownloadErrors ELSE {NoErr}) :
              reads' = Append(reads, [url |-> files[fi + 1].url, err |-> e])
        /\ \E left \in (IF stage = "write" THEN BOOLEAN ELSE {FALSE}) :
              /\ disk' = IF left
                         THEN Write(disk, PartPath(tables[k + 1].name, fi + 1),
                                    Content(tables[k + 1], fi + 1, FALSE, {}))
                         ELSE disk
              /\ written' = IF left
                            THEN written \cup { PartPath(tables[k + 1].name, fi + 1) }
                            ELSE written
    /\ fi' = AfterFileError(Len(files), fi + 1)
    /\ UNCHANGED << prog, creds_file, lc_result, pc, catalog, tables, k, started, all_dfs, failed_tables,
                    successful_fetches, save, exc, clock, files, saved_files, ddf,
                    ftf_result, ftf_why, successful_tables, returns, nlisted, rft_idle,
                    main_vars, pauses, sample_load, run, disk1, listings, list_raised, fetched >>

\* lines 109-126: some file was saved: build the view, write the combined CSV, return it
PF_Aggregate ==
    /\ prog = "per_file_main" /\ pc = "files"
    /\ fi >= Len(files)
    /\ HasSaved(saved_files)
    /\ ddf' = GlobParts(disk, tables[k + 1].name)
    /\ \E d \in Ticks :
        /\ clock' = clock + d
        /\ disk' = Write(disk, CombinedPath(tables[k + 1].name, clock + d),
                         Content(tables[k + 1], 0, TRUE, ddf'))
    /\ ftf_result' = "ddf"
    /\ ftf_why' = "aggregated"
    /\ pc' = "ret"
    /\ written' = written \cup { CombinedPath(tables[k + 1].name, clock') }
    /\ UNCHANGED << prog, creds_file, lc_result, catalog, tables, k, started, all_dfs, failed_tables,
                    successful_fetches, save, exc, files, fi, processed, saved_files,
                    successful_tables, returns, nlisted, rft_idle,
                    main_vars, pauses, sample_load, run, disk1, listings, list_raised, fetched, reads >>

\* lines 109-124 and 132-134: read_csv or head raises, or to_csv raises after
\* the timestamp of line 120 was taken, and may leave what it had written so
\* far: caught, return None
PF_AggregateRaises ==
    /\ prog = "per_file_main" /\ pc = "files"
    /\ fi >= Len(files)
    /\ HasSaved(saved_files)
    /\ \/ UNCHANGED << clock, disk, written >>
       \/ \E d \in Ticks, left \in BOOLEAN :
            /\ clock' = clock + d
            /\ disk' = IF left
                       THEN Write(disk, CombinedPath(tables[k + 1].name, clock + d),
                                  Content(tables[k + 1], 0, FALSE,
                                          GlobParts(disk, tables[k + 1].name)))
                       ELSE disk
            /\ written' = IF left
                          THEN written \cup { CombinedPath(tables[k + 1].name, clock + d) }
                          ELSE written
    /\ ftf_result' = "None"
    /\ ftf_why' = "exception"
    /\ pc' = "ret"
    /\ UNCHANGED << prog, creds_file, lc_result, catalog, tables, k, started, all_dfs, failed_tables,
                    successful_fetches, save, exc, files, fi, processed,
                    saved_files, ddf, successful_tables, returns, nlisted, rft_idle,
                    main_vars, pauses, sample_load, run, disk1, listings, list_raised, fetched, reads >>

\* lines 128-130: no file was saved: return None
PF_NoneSaved ==
    /\ prog = "per_file_main" /\ pc = "files"
    /\ fi >= Len(files)
    /\ ~HasSaved(saved_files)
    /\ ftf_result' = "None"
    /\ ftf_why' = "none_saved"
    /\ pc' = "ret"
    /\ UNCHANGED << prog, creds_file, lc_result, catalog, tables, k, started, all_dfs, failed_tables,
                    successful_fetches, save, disk, exc, clock, files, fi, processed,
                    saved_files, ddf, successful_tables, returns, nlisted, rft_idle,
                    main_vars, hist_vars >>

\* line 168: if ddf is not None
CountsAsSuccessAlways(r) == TRUE
CountsAsSuccess(r) == r # "None"

\* lines 167-173: main takes the result, waits 3 seconds, goes to the next table
PF_AfterTable ==
    /\ prog = "per_file_main" /\ pc = "ret"
    /\ successful_tables' = IF CountsAsSuccess(ftf_result)
                            THEN Append(successful_tables, tables[k + 1].name)
                            ELSE successful_tables
    /\ returns' = Append(returns, [result |-> ftf_result, why |-> ftf_why,
                                    nok |-> Len(saved_files)])
    /\ clock' = clock + 1
    /\ k' = k + 1
    /\ pc' = "loop"
    /\ files' = <<>>
    /\ fi' = 0
    /\ processed' = <<>>
    /\ saved_files' = <<>>
    /\ ddf' = {}
    /\ ftf_result' = "idle"
    /\ ftf_why' = "idle"
    /\ reads' = <<>>
    /\ pauses' = Append(pauses, Pause(k + 1, PerFileTableDelay))
    /\ UNCHANGED << prog, creds_file, lc_result, catalog, tables, started, all_dfs, failed_tables,
                    successful_fetches, save, disk, exc, nlisted, rft_idle,
                    main_vars, sample_load, run, disk1, listings, written, list_raised, fetched >>

\* lines 175-183: the summary
PF_Summary ==
    /\ prog = "per_file_main" /\ pc = "loop"
    /\ k >= Len(tables)
    /\ pc' = "done"
    /\ UNCHANGED << prog, creds_file, lc_result, catalog, tables, k, started, all_dfs, failed_tables,
                    successful_fetches, save, disk, exc, clock, ftf_idle,
                    successful_tables, returns, nlisted, rft_idle,
                    main_vars, hist_vars >>

per_file_main ==
    PF_Start \/ PF_StartRaises \/ PF_ListFiles \/ PF_NoFiles \/ PF_ListFilesRaises
        \/ PF_FileOk \/ PF_FileFails \/ PF_Aggregate \/ PF_AggregateRaises
        \/ PF_NoneSaved \/ PF_AfterTable \/ PF_Summary

(***************************************************************************)
(* The entry point is run a second time, any time after the first run      *)
(* ended, on the files the first run left and the same remote state.       *)
(* run_notebook.py lines 50-62, notebooks/fetch_data.py lines 140-160      *)
(***************************************************************************)
RerunProgs == {"run_notebook", "per_file_main"}

\* the first run has ended and left files; the second run starts with
\* fresh program variables, at any reading of the local clock next to the last
Rerun ==
    /\ prog \in RerunProgs /\ pc = "done" /\ run = 1
    /\ disk # << >>
    /\ Len(tables) <= MaxRerunTables /\ nlisted <= MaxRerunFiles
    /\ run' = 2
    /\ disk1' = disk
    /\ written' = {}
    /\ \E d \in Ticks : clock' = clock + d
    /\ pc' = "start"
    /\ tables' = <<>>
    /\ k' = 0
    /\ started' = <<>>
    /\ all_dfs' = {}
    /\ failed_tables' = <<>>
    /\ successful_tables' = <<>>
    /\ returns' = <<>>
    /\ fetched' = <<>>
    /\ pauses' = <<>>
    /\ UNCHANGED << prog, creds_file, lc_result, catalog, successful_fetches, save, disk, exc, rft_idle, ftf_idle,
                    nlisted, main_vars, listings, list_raised, reads, sample_load >>

(***************************************************************************)
(* notebooks/direct_delta_fetch.py: main (lines 145-177) with              *)
(* load_credentials (lines 22-36), test_direct_client (lines 38-57),       *)
(* try_alternative_fetch_methods (lines 60-120), save_results (123-142)    *)
(***************************************************************************)
\* the part of q after its last dot: type(e).__name__ of a type's name,
\* table_name.split('.')[-1]
RECURSIVE AfterLastDot(_)
AfterLastDot(q) ==
    IF \E i \in DOMAIN q : q[i] = "."
    THEN AfterLastDot(Tail(q))
    ELSE q

\* lines 25-33 and 150-152: the profile is read and shown, the function
\* returns it and main goes on
LC_Loaded ==
    /\ prog = "direct_main" /\ pc = "start"
    /\ creds_file.kind = "ok"
    /\ lc_result' = "creds"
    /\ pc' = "client"
    /\ UNCHANGED << prog, creds_file, catalog, tables, k, started, all_dfs, failed_tables,
                    successful_fetches, save, disk, exc, clock, ftf_vars, rft_idle,
                    main_vars, hist_vars >>

\* lines 25-36 and 150-152: open, json.load or a missing key raises: caught,
\* return None; main returns
LC_Fails ==
    /\ prog = "direct_main" /\ pc = "start"
    /\ creds_file.kind # "ok"
    /\ lc_result' = "None"
    /\ pc' = "done"
    /\ UNCHANGED << prog, creds_file, catalog, tables, k, started, all_dfs, failed_tables,
                    successful_fetches, save, disk, exc, clock, ftf_vars, rft_idle,
                    main_vars, hist_vars >>

\* lines 40-54 and 155: the client is built and the tables are listed
DM_TestClient ==
    /\ prog = "direct_main" /\ pc = "client"
    /\ tables' = catalog
    /\ pc' = "methods"
    /\ UNCHANGED << prog, creds_file, lc_result, catalog, k, started, all_dfs, failed_tables,
                    successful_fetches, save, disk, exc, clock, ftf_vars, rft_idle,
                    main_vars, hist_vars >>

\* lines 55-57 and 155-157: building the client or listing raises: caught,
\* test_direct_client returns (None, []) and main returns
DM_NoClient ==
    /\ prog = "direct_main" /\ pc = "client"
    /\ list_raised' = TRUE
    /\ pc' = "done"
    /\ UNCHANGED << prog, creds_file, lc_result, catalog, tables, k, started, all_dfs,
                    failed_tables, successful_fetches, save, disk, exc, clock, ftf_vars,
                    rft_idle, main_vars, pauses, sample_load, run, disk1, listings, written,
                    fetched, reads >>

\* line 70: tables[:2]
TriedTables(ts) == IF Len(ts) < DirectTables THEN Len(ts) ELSE DirectTables

\* lines 70-118: one of the first two tables: the load of method 1, then of
\* method 2 unless method 1 gave rows; the table is recorded when a load
\* gave rows (method 3 touches nothing)
DM_Try ==
    /\ prog = "direct_main" /\ pc = "methods"
    /\ k < TriedTables(tables)
    /\ started' = Append(started, k + 1)
    /\ \E o1 \in LoadOutcomes :
          IF o1.kind = "df"
          THEN /\ all_dfs' = all_dfs \cup { Key(tables[k + 1]) }
               /\ fetched' = Append(fetched, Fetched("df", NoErr, 1))
          ELSE \E o2 \in LoadOutcomes :
                 /\ all_dfs' = IF o2.kind = "df"
                               THEN all_dfs \cup { Key(tables[k + 1]) }
                               ELSE all_dfs
                 /\ fetched' = Append(fetched, Fetched(o2.kind, o2.err, 2))
    /\ k' = k + 1
    /\ UNCHANGED << prog, creds_file, lc_result, pc, catalog, tables, failed_tables,
                    successful_fetches, save, disk, exc, clock, ftf_vars, rft_idle,
                    main_vars, pauses, sample_load, run, disk1, listings, written,
                    list_raised, reads >>

\* the tables recorded in successful_dfs, in the order they were recorded
Recorded == SelectSeq(SubSeq(tables, 1, k), LAMBDA t : Key(t) \in all_dfs)

\* line 132-133: RAW_DIR / f"{table_short}_{timestamp}.parquet"
ResultPath(t, ts) == ParquetPath(AfterLastDot(Key(t)), ts)

\* lines 131-142: the files of the first n recorded tables, those of oks
\* written, the others' to_parquet raised and was caught
RECURSIVE SaveResults(_, _, _, _, _)
SaveResults(d, rec, oks, ts, n) ==
    IF n = 0 THEN d
    ELSE LET prev == SaveResults(d, rec, oks, ts, n - 1)
         IN  IF n \in oks
             THEN Write(prev, ResultPath(rec[n], ts), Content(rec[n], 0, TRUE, {}))
             ELSE prev

\* lines 120, 125-127 and 163-177: nothing was fetched: save_results returns
\* at once, main prints its advice
DM_NothingFetched ==
    /\ prog = "direct_main" /\ pc = "methods"
    /\ k >= TriedTables(tables)
    /\ all_dfs = {}
    /\ pc' = "done"
    /\ UNCHANGED << prog, creds_file, lc_result, catalog, tables, k, started, all_dfs,
                    failed_tables, successful_fetches, save, disk, exc, clock, ftf_vars,
                    rft_idle, main_vars, hist_vars >>

\* lines 120, 129-142 and 163-168: one timestamp is taken, every recorded
\* table is saved under it (a failed save is logged), main prints the preview
DM_Save ==
    /\ prog = "direct_main" /\ pc = "methods"
    /\ k >= TriedTables(tables)
    /\ all_dfs # {}
    /\ \E d \in Ticks, oks \in SUBSET (1..Len(Recorded)) :
        /\ clock' = clock + d
        /\ disk' = SaveResults(disk, Recorded, oks, clock + d, Len(Recorded))
        /\ written' = written \cup { ResultPath(Recorded[i], clock + d) : i \in oks }
    /\ pc' = "done"
    /\ UNCHANGED << prog, creds_file, lc_result, catalog, tables, k, started, all_dfs,
                    failed_tables, successful_fetches, save, exc, ftf_vars, rft_idle,
                    main_vars, pauses, sample_load, run, disk1, listings, list_raised,
                    fetched, reads >>

direct_main ==
    LC_Loaded \/ LC_Fails \/ DM_TestClient \/ DM_NoClient \/ DM_Try
        \/ DM_NothingFetched \/ DM_Save

(***************************************************************************)
(* What the functions print.  A line is the text of one print call (the    *)
(* leading emoji of the lines of direct_delta_fetch.py is left out).       *)
(***************************************************************************)
\* s[:n]
Take(s, n) == SubSeq(s, 1, IF Len(s) < n THEN Len(s) ELSE n)

\* run_notebook.py line 26: f"  Attempt {attempt + 1}/{max_retries}..."
AttemptLine(a, n) ==
    <<" "," ","A","t","t","e","m","p","t"," ">>
        \o DecStr(a + 1) \o <<"/">> \o DecStr(n) \o <<".",".",".">>

\* run_notebook.py lines 38, 42 and 45: the line printed for the exception
\* e of attempt a
ErrorLine(e, a, n, dl) ==
    LET \* "    Authentication/URL issue "
        AuthIssue ==
            <<" "," "," "," ","A","u","t","h","e","n","t","i","c","a","t","i","o","n",
              "/","U","R","L"," ","i","s","s","u","e"," ">>
        \* ", retrying in "
        RetryingIn == <<","," ","r","e","t","r","y","i","n","g"," ","i","n"," ">>
        \* "    Final attempt failed: "
        FinalAttempt ==
            <<" "," "," "," ","F","i","n","a","l"," ","a","t","t","e","m","p","t"," ",
              "f","a","i","l","e","d",":"," ">>
        \* "    Non-retryable error: "
        NonRetryable ==
            <<" "," "," "," ","N","o","n","-","r","e","t","r","y","a","b","l","e"," ",
              "e","r","r","o","r",":"," ">>
    IN  IF IsRetryable(e)
        THEN IF MayRetry(a, n)
             THEN AuthIssue \o e.msg \o RetryingIn \o DecStr(dl) \o <<"s">> \o <<".",".",".">>
             ELSE FinalAttempt \o AfterLastDot(e.etype)
        ELSE NonRetryable \o AfterLastDot(e.etype) \o <<":"," ">>
                 \o Take(e.msg, ErrorShown) \o <<".",".",".">>

\* the lines a call of robust_fetch_table has printed after the attempts cs
RECURSIVE RFT_Lines(_, _, _)
RFT_Lines(cs, n, dl) ==
    IF cs = <<>> THEN <<>>
    ELSE LET a == Len(cs) - 1
             e == cs[Len(cs)]
         IN  RFT_Lines(SubSeq(cs, 1, a), n, dl)
                 \o << AttemptLine(a, n) >>
                 \o (IF e = NoErr THEN <<>> ELSE << ErrorLine(e, a, n, dl) >>)

\* direct_delta_fetch.py lines 28-31 and 35: the lines load_credentials
\* prints for the profile f
LC_Lines(f) ==
    LET \* "Failed to load credentials: "
        FailedToLoad ==
            <<"F","a","i","l","e","d"," ","t","o"," ","l","o","a","d"," ","c","r","e",
              "d","e","n","t","i","a","l","s",":"," ">>
        \* "[Errno 2] No such file or directory: 'credentials/config.share'"
        NoSuchFile ==
            <<"[","E","r","r","n","o"," ","2","]"," ","N","o"," ","s","u","c","h"," ",
              "f","i","l","e"," ","o","r"," ","d","i","r","e","c","t","o","r","y",":"," ",
              "'","c","r","e","d","e","n","t","i","a","l","s","/",
              "c","o","n","f","i","g",".","s","h","a","r","e","'">>
        \* str(KeyError('bearerToken'))
        KeyErrorText == <<"'","b","e","a","r","e","r","T","o","k","e","n","'">>
        CredentialsLoaded ==
            <<"C","r","e","d","e","n","t","i","a","l","s"," ","l","o","a","d","e","d",":">>
        Endpoint == <<" "," "," ","E","n","d","p","o","i","n","t",":"," ">>
        Expiration == <<" "," "," ","E","x","p","i","r","a","t","i","o","n",":"," ">>
        BearerToken ==
            <<" "," "," ","B","e","a","r","e","r"," ","T","o","k","e","n",":"," ">>
    IN  IF f.kind = "missing"
        THEN << FailedToLoad \o NoSuchFile >>
        ELSE << CredentialsLoaded,
                Endpoint \o f.endpoint,
                Expiration \o f.expirationTime >>
             \o (IF f.kind = "ok"
                 THEN << BearerToken \o Take(f.bearerToken, TokenShown) \o <<".",".",".">> >>
                 ELSE << FailedToLoad \o KeyErrorText >>)

\* the lines printed so far by load_credentials or by the running call of
\* robust_fetch_table
Log ==
    IF prog = "direct_main"
    THEN (IF lc_result = "unset" THEN <<>> ELSE LC_Lines(creds_file))
    ELSE IF pc = "rft" THEN RFT_Lines(calls, max_retries, delay)
    ELSE <<>>

Next ==
    robust_fetch_table \/ run_notebook \/ fetch_all_tables \/ fetch_all_tables_improved
        \/ improved_main \/ per_file_main \/ direct_main

Spec == Init /\ [][Next]_vars

\* the entry points, each run once or (run_notebook.py, per-file main) twice
NextRerun == Next \/ Rerun

SpecRerun == Init /\ [][NextRerun]_vars

(***************************************************************************)
(* The two orchestrators with a final report (run_notebook.py and the      *)
(* per-file main) and robust_fetch_table called directly.  The program is  *)
(* sequential and every call it makes returns or raises, so a step that    *)
(* can be taken is taken: weak fairness of the next-state relation.        *)
(***************************************************************************)
ReportingProgs == {"run_notebook", "per_file_main"}

InitLive == Init /\ prog \in ReportingProgs \cup {"robust_fetch_table"}

\* the per-file main is explored for listings of at most MaxLiveFiles files
NextLive ==
    \/ robust_fetch_table
    \/ run_notebook
    \/ per_file_main /\ nlisted' <= MaxLiveFiles

SpecLive == InitLive /\ [][NextLive]_vars /\ WF_vars(NextLive)

(***************************************************************************)
(* The per-file main on one table of up to MaxPartFiles files, every file  *)
(* of which is processed successfully.                                     *)
(***************************************************************************)
InitParts == Init /\ prog = "per_file_main" /\ catalog = << T_Orders >>

NextParts ==
    PF_Start \/ PF_ListManyFiles \/ PF_FileOk \/ PF_Aggregate \/ PF_AfterTable
        \/ PF_Summary

SpecParts == InitParts /\ [][NextParts]_vars

(***************************************************************************)
(* Properties of robust_fetch_table                                        *)
(***************************************************************************)
RFT_Finished == rft_status \in {"returned_df", "returned_None", "raised"}
HasSuccess(s) == \E i \in DOMAIN s : s[i] = NoErr
FirstSuccess(s) == CHOOSE i \in DOMAIN s : s[i] = NoErr /\ \A j \in 1..(i - 1) : s[j] # NoErr
Failures(s) == { i \in DOMAIN s : s[i] # NoErr }

\* an exception whose type and text carry none of the three markers of line 36
HasNoMarker(e) ==
    /\ ~Contains(S_FileNotFoundError, StrType(e.etype))
    /\ ~Contains(S_401, e.msg)
    /\ ~Contains(S_NoAuthenticationInformation, e.msg)

\* C1: when every failure of a call of robust_fetch_table is retryable, the
\* load is invoked min(max_retries, position of the first success) times,
\* every sleep is of `delay`, there is one sleep after every failed attempt
\* but the last permitted one (attempts - 1 sleeps once an attempt is made),
\* and there are never more than max_retries attempts.
C1_AttemptsAndSleeps ==
    pc = "rft" =>
        /\ Len(calls) <= max_retries
        /\ \A i \in DOMAIN slept : slept[i] = delay
        /\ (RFT_Finished /\ \A i \in Failures(calls) : IsRetryable(calls[i])) =>
              /\ Len(calls) = IF HasSuccess(calls) THEN FirstSuccess(calls) ELSE max_retries
              /\ Len(slept) = Cardinality({ i \in Failures(calls) : i < max_retries })
              /\ Len(calls) >= 1 => Len(slept) = Len(calls) - 1

\* C1 witness: success on the third of three permitted attempts, after two
\* retryable failures and two sleeps
C1_Witness ==
    /\ prog = "robust_fetch_table" /\ max_retries = 3
    /\ rft_status = "returned_df"
    /\ calls = << E_401, E_UrlGone, NoErr >>
    /\ Len(slept) = 2

\* C2: a failure that is not retryable is the last attempt of the call: the
\* function raises that very exception, and no attempt and no sleep follows
\* it, whatever the attempt number and max_retries.
C2_FatalPropagates ==
    pc = "rft" =>
        \A i \in Failures(calls) :
            HasNoMarker(calls[i]) =>
                /\ i = Len(calls)
                /\ rft_status = "raised"
                /\ rft_err = calls[i]
                /\ Len(slept) = i - 1

\* C2 witness: a fatal error on attempt 1 of 3: one attempt, no sleep
C2_Witness ==
    /\ prog = "robust_fetch_table" /\ max_retries = 3
    /\ calls = << E_Timeout >>
    /\ rft_status = "raised" /\ rft_err = E_Timeout
    /\ slept = <<>>

\* C3 as stated: for every max_retries, robust_fetch_table returns normally
\* only with the result of an attempt that succeeded, and when no attempt
\* succeeded it raises and returns nothing, None included.
C3_NeverReturnsNone ==
    (pc = "rft" /\ RFT_Finished) =>
        /\ rft_status # "raised" => (rft_status = "returned_df" /\ HasSuccess(calls))
        /\ ~HasSuccess(calls) => rft_status = "raised"

\* C3 amended: for max_retries >= 1, robust_fetch_table returns normally only
\* with the result of an attempt that succeeded, that attempt being the last
\* one made, and when no attempt succeeded it raises the last attempt's
\* exception; for max_retries <= 0 it makes no attempt and returns None.
C3_ReturnsOnlySuccess ==
    (pc = "rft" /\ RFT_Finished) =>
        /\ rft_status = "returned_df" =>
              (HasSuccess(calls) /\ FirstSuccess(calls) = Len(calls))
        /\ (max_retries >= 1 /\ ~HasSuccess(calls)) =>
              (rft_status = "raised" /\ calls # <<>> /\ rft_err = calls[Len(calls)])
        /\ max_retries <= 0 => (rft_status = "returned_None" /\ calls = <<>>)
        /\ rft_status = "returned_None" => max_retries <= 0

\* C3 witness: three retryable failures of three permitted attempts: raised
C3_Witness ==
    /\ prog = "robust_fetch_table" /\ max_retries = 3
    /\ calls = << E_401, E_401, E_401 >>
    /\ rft_status = "raised" /\ rft_err = E_401

\* C4 as stated: a failure is retried if and only if its cause is
\* authentication/URL transience (HTTP 401, not-found on a signed URL, no
\* authentication information); any other failure is fatal: it is raised at
\* once and no sleep or attempt follows it.
C4_RetryableIffTransient ==
    pc = "rft" =>
        \A i \in Failures(calls) :
            /\ calls[i].cause \notin TransientCauses =>
                  (i = Len(calls) /\ rft_status = "raised" /\ Len(slept) = i - 1)
            /\ (calls[i].cause \in TransientCauses /\ i < max_retries) => Len(slept) >= i

(***************************************************************************)
(* Properties of the whole-table loops                                     *)
(***************************************************************************)
InFailed(key) == \E j \in DOMAIN failed_tables : failed_tables[j][1] = key
WholeTableProgs == {"run_notebook", "fetch_all_tables", "fetch_all_tables_improved"}

\* C5 as stated: at the end of a run of run_notebook.py every listed table is
\* in exactly one of all_dfs and failed_tables, whatever the load and save
\* outcomes were.
C5_ExactlyOneRecord ==
    (prog = "run_notebook" /\ pc = "done") =>
        \A i \in DOMAIN tables : (Key(tables[i]) \in all_dfs) # InFailed(Key(tables[i]))

\* C6 as stated: in the whole-table loops no exception raised while a table
\* is handled leaves the loop: an uncaught exception can only come from the
\* steps before the first table, and a loop that was entered starts every
\* table of the listing.
C6_NoTableAbortsLoop ==
    prog \in WholeTableProgs =>
        /\ pc = "aborted" => started = <<>>
        /\ pc = "done" => Len(started) = Len(tables)

(***************************************************************************)
(* Properties of the per-file mode                                         *)
(***************************************************************************)
OkPositions(pr) == { i \in DOMAIN pr : pr[i] = "ok" }
SavedSet == { saved_files[j] : j \in DOMAIN saved_files }

\* the name of part i written out, for i < 10: <name>_part_0<i>.csv
PartFileName(name, i) ==
    name \o <<"_","p","a","r","t","_","0">> \o << DigitChar(i) >> \o <<".","c","s","v">>

RECURSIVE NamesOfSuccesses(_, _)
NamesOfSuccesses(rs, ts) ==
    IF rs = <<>> THEN <<>>
    ELSE (IF Head(rs).result # "None" THEN << Head(ts).name >> ELSE <<>>)
            \o NamesOfSuccesses(Tail(rs), Tail(ts))

\* a combined CSV of table t
IsCombinedOf(p, t) ==
    /\ p.dir = TableDir(t.name)
    /\ StartsWith(p.file, t.name \o S_combined)
    /\ disk[p].table = t

\* some file of the table in hand failed to download, decode or write
SomeFileFailed == \E i \in DOMAIN processed : processed[i] # "ok"
\* the listing of the table in hand, or the creation of its directory, raised
ListingFailed == k + 1 <= Len(listings) /\ listings[k + 1] < 0

\* C7 as stated: fetch_table_files never raises; any error while listing
\* files, creating the directory, processing files or aggregating makes the
\* call return None; the table is then not counted as successful; main goes
\* on, so every listed table is attempted.
C7_AnyErrorReturnsNone ==
    prog = "per_file_main" =>
        /\ pc = "aborted" => (started = <<>> /\ returns = <<>>)
        /\ (pc = "ret" /\ (ListingFailed \/ ftf_why = "exception" \/ SomeFileFailed))
              => ftf_result = "None"
        /\ successful_tables = NamesOfSuccesses(returns, SubSeq(tables, 1, k))
        /\ pc = "done" => (Len(started) = Len(tables) /\ Len(returns) = Len(tables))

\* C7 amended: fetch_table_files never raises: no exception leaves main once
\* the table loop is entered. An error while listing files or creating the
\* directory makes the call return None before any file is processed, and an
\* error while aggregating makes it return None. An error while downloading,
\* decoding or writing one file is skipped: the call then returns None only
\* when no file of the table was saved, and otherwise returns the view
\* (unless the aggregation raises), with the combined file written.
\* successful_tables holds exactly the tables whose call returned a view;
\* main starts the tables in listing order and, when it ends, has started
\* and finished every listed table.
C7_TableErrorsAreContained ==
    prog = "per_file_main" =>
        /\ pc = "aborted" => (started = <<>> /\ returns = <<>>)
        /\ ftf_result \in {"idle", "running", "ddf", "None"}
        /\ pc = "ret" =>
              /\ ListingFailed => (ftf_result = "None" /\ processed = <<>>)
              /\ ftf_why = "exception" => ftf_result = "None"
              /\ OkPositions(processed) = {} => ftf_result = "None"
              /\ (SomeFileFailed /\ OkPositions(processed) # {} /\ ftf_why # "exception")
                    => ftf_result = "ddf"
              /\ ftf_result = "ddf" =>
                    /\ ~ListingFailed
                    /\ OkPositions(processed) # {} /\ Len(processed) = Len(files)
                    /\ \E p \in written :
                          /\ IsCombinedOf(p, tables[k + 1])
                          /\ disk[p].complete /\ disk[p].parts = ddf
        /\ \A i \in DOMAIN returns :
              /\ returns[i].why = "exception" => returns[i].result = "None"
              /\ returns[i].result = "ddf" => returns[i].nok > 0
        /\ Len(returns) = k /\ k <= Len(tables)
        /\ successful_tables = NamesOfSuccesses(returns, SubSeq(tables, 1, k))
        /\ \A i \in DOMAIN started : started[i] = i
        /\ pc = "done" => (Len(started) = Len(tables) /\ Len(returns) = Len(tables))

\* C7 witness: two tables; the listing of the first raised, its call
\* returned None and it was not counted; of the two files of the second the
\* first failed to decode and the second was saved, and its call returned
\* the view
C7_Witness ==
    /\ prog = "per_file_main" /\ pc = "ret" /\ Len(tables) = 2 /\ k = 1
    /\ listings[1] < 0
    /\ returns[1].why = "exception" /\ returns[1].result = "None"
    /\ successful_tables = <<>>
    /\ processed = << "decode", "ok" >>
    /\ ftf_result = "ddf"

\* C8: whichever files of a table fail, every file of the listing is
\* processed; saved_files holds, in listing order, exactly the part files of
\* the files that succeeded, each written completely and named by the
\* 1-based position of its file in the listing; and when at least one file
\* succeeded the aggregation is run and returns the view (unless one of the
\* aggregation's own calls raises).
C8_FailedFilesAreSkipped ==
    (prog = "per_file_main" /\ pc \in {"files", "ret"}) =>
        /\ Len(processed) = fi /\ fi <= Len(files)
        /\ pc = "ret" => Len(processed) = Len(files)
        /\ Len(saved_files) = Cardinality(OkPositions(processed))
        /\ \A i \in OkPositions(processed) :
              LET j == Cardinality({ m \in OkPositions(processed) : m <= i })
                  p == [dir |-> TableDir(tables[k + 1].name),
                        file |-> PartFileName(tables[k + 1].name, i)]
              IN  /\ saved_files[j] = p
                  /\ p \in DOMAIN disk
                  /\ disk[p] = Content(tables[k + 1], i, TRUE, {})
        /\ (pc = "ret" /\ OkPositions(processed) # {}) =>
              /\ ftf_why \in {"aggregated", "exception"}
              /\ ftf_why = "aggregated" => (ftf_result = "ddf" /\ SavedSet \subseteq ddf)

\* C8 witness: files [ok, fails, ok]: parts 01 and 03, aggregation succeeded
C8_Witness ==
    /\ prog = "per_file_main" /\ pc = "ret"
    /\ processed = << "ok", "download", "ok" >>
    /\ Len(saved_files) = 2
    /\ saved_files[1].file = PartFileName(tables[k + 1].name, 1)
    /\ saved_files[2].file = PartFileName(tables[k + 1].name, 3)
    /\ ftf_result = "ddf"

\* C9: when no file of a table was processed successfully (empty listing or
\* every file failed), fetch_table_files returns None, builds no view and
\* writes no combined file, and the table is not added to successful_tables.
C9_NothingSavedNothingAggregated ==
    prog = "per_file_main" =>
        /\ (pc = "ret" /\ OkPositions(processed) = {}) =>
              /\ ftf_result = "None"
              /\ ddf = {}
              /\ ~\E p \in DOMAIN disk : IsCombinedOf(p, tables[k + 1])
        /\ \A i \in DOMAIN returns : returns[i].nok = 0 => returns[i].result = "None"
        /\ Len(successful_tables) <= Cardinality({ i \in DOMAIN returns : returns[i].nok > 0 })

\* C9 witness: a table with two files, both failed: None, nothing aggregated
C9_Witness ==
    /\ prog = "per_file_main" /\ pc = "ret"
    /\ Len(files) = 2 /\ Len(processed) = 2 /\ OkPositions(processed) = {}
    /\ ftf_why = "none_saved" /\ ftf_result = "None"

\* C10 as stated: the view built for a table reads exactly the part files
\* saved for that table in this call (saved_files), all of them written
\* completely from that table.
C10_AggregateIsSavedFiles ==
    (prog = "per_file_main" /\ pc = "ret" /\ ftf_result = "ddf") =>
        /\ ddf = SavedSet
        /\ \A p \in ddf : disk[p].table = tables[k + 1] /\ disk[p].complete

(***************************************************************************)
(* Properties of the size estimate and the confirmation                    *)
(***************************************************************************)
Listed(t, l) == \E i \in DOMAIN l : l[i] = t
SizeOf(f) == IF f.has_size THEN f.size ELSE 0
RECURSIVE SizeTotal(_, _)
SizeTotal(fs, n) == IF n = 0 THEN 0 ELSE SizeTotal(fs, n - 1) + SizeOf(fs[n])
RECURSIVE SumOfEstimates(_, _)
SumOfEstimates(pts, n) == IF n = 0 THEN 0 ELSE SumOfEstimates(pts, n - 1) + pts[n][2]

\* file is pre, a timestamp of strftime, suf
Stamped(file, pre, suf) ==
    /\ Len(file) = Len(pre) + Len(StrfTime(0)) + Len(suf)
    /\ SubSeq(file, 1, Len(pre)) = pre
    /\ SubSeq(file, Len(file) - Len(suf) + 1, Len(file)) = suf

\* p is a path RAW_DIR/sample_<name>_<timestamp>.parquet
IsSamplePath(p, name) ==
    p.dir = RAW_DIR /\ Stamped(p.file, S_sample \o name \o <<"_">>, S_parquet)

\* p is a path RAW_DIR/<name>_<timestamp>.parquet
IsParquetPath(p, name) ==
    p.dir = RAW_DIR /\ Stamped(p.file, name \o <<"_">>, S_parquet)

\* the local files are exactly the sample file of the first listed table
OnlySampleOnDisk ==
    \E p \in DOMAIN disk :
        /\ DOMAIN disk = { p }
        /\ IsSamplePath(p, catalog[1].name)
        /\ disk[p] = Content(catalog[1], 0, TRUE, {})

\* C11: every call of estimate_table_size_bytes returns (no exception leaves
\* it); it returns 0 when building the client, listing the tables or listing
\* the files raised, or when the table (share, schema and name) is not in
\* the listing, and otherwise the sum of the sizes of all file descriptors
\* of that table; while the estimates run nothing is downloaded and no
\* local file is written.
C11_EstimateIsSumOrZero ==
    prog = "improved_main" =>
        /\ Len(est) = Len(per_table_sizes)
        /\ \A i \in DOMAIN per_table_sizes :
              LET t == per_table_sizes[i][1]
                  o == est[i]
              IN  per_table_sizes[i][2] =
                      IF o.fail # "none" \/ ~Listed(t, o.listing) THEN 0
                      ELSE SizeTotal(RemoteFiles(t), Len(RemoteFiles(t)))
        /\ pc = "estimate" =>
              (exc = NoErr /\ OnlySampleOnDisk /\ reads = <<>> /\ started = <<>>)

\* C11 witness: the listing holds two tables of the same name; the file
\* listing of the first raised (0), the second was summed (7 bytes, one of
\* its descriptors has no size)
C11_Witness ==
    /\ prog = "improved_main" /\ pc = "estimate"
    /\ Len(per_table_sizes) = 2
    /\ per_table_sizes[1] = << T_Orders, 0 >> /\ est[1].fail = "list_files"
    /\ per_table_sizes[2] = << T_Orders2, 7 >> /\ est[2].fail = "none"

\* C12: in the pre-flight, once the table listing is non-empty, a failed
\* estimate contributes 0, the tables are estimated one after the other in
\* listing order whatever failed before, total_bytes is the sum of the
\* per-table estimates, no exception ends the run while estimates are made,
\* and the prompt is reached: there is always a next estimate or the prompt.
C12_EstimationNeverAborts ==
    prog = "improved_main" =>
        /\ total_bytes = SumOfEstimates(per_table_sizes, Len(per_table_sizes))
        /\ \A i \in DOMAIN per_table_sizes :
              /\ i <= Len(tables) /\ per_table_sizes[i][1] = tables[i]
              /\ est[i].fail # "none" => per_table_sizes[i][2] = 0
        /\ est # <<>> => pc = "estimate"
        /\ pc = "estimate" =>
              /\ tables # <<>> /\ exc = NoErr
              /\ ENABLED (PRE_Estimate \/ PRE_Answer)
              /\ Len(per_table_sizes) = Len(tables) => ENABLED PRE_Answer

\* C12 witness: at the prompt, two tables; the estimate of the first failed
\* and counts 0, the second was still estimated, the total is its 7 bytes
C12_Witness ==
    /\ prog = "improved_main" /\ pc = "estimate"
    /\ Len(tables) = 2 /\ Len(per_table_sizes) = 2
    /\ est[1].fail = "list_tables" /\ per_table_sizes[1][2] = 0
    /\ est[2].fail = "none" /\ per_table_sizes[2][2] = 7
    /\ total_bytes = 7

\* c is the letter l in lower or upper case
IsLetter(c, l) ==
    \E i \in DOMAIN LowerCase : LowerCase[i] = l /\ (c = l \/ c = UpperCase[i])
\* s is "y" or "yes" in any case
IsYesWord(s) ==
    \/ Len(s) = 1 /\ IsLetter(s[1], "y")
    \/ Len(s) = 3 /\ IsLetter(s[1], "y") /\ IsLetter(s[2], "e") /\ IsLetter(s[3], "s")
\* the answer is y or yes, in any case, between any white space
Affirmative(a) ==
    /\ a.asked /\ ~a.eof
    /\ \E i \in 1..Len(a.text), j \in 1..Len(a.text) :
          /\ IsYesWord(SubSeq(a.text, i, j))
          /\ \A m \in DOMAIN a.text : (m < i \/ m > j) => a.text[m] \in Whitespace

\* C13: in main, fetch_all_tables_improved is entered only after the
\* operator answered y or yes (trimmed, in any case); after any other
\* answer, an empty answer or EOF, main ends without a remote call or a
\* write of the full fetch, and the sample file is the only local file,
\* as it was written.
C13_FullFetchOnlyAfterYes ==
    prog = "improved_main" =>
        /\ (pc \in {"start", "list", "loop"} \/ started # <<>> \/ all_dfs # {} \/ fetched # <<>>)
              => Affirmative(answer)
        /\ (answer.asked /\ ~Affirmative(answer)) =>
              /\ pc = "done"
              /\ started = <<>> /\ all_dfs = {} /\ fetched = <<>> /\ successful_fetches = 0
              /\ exc = NoErr
              /\ OnlySampleOnDisk

\* C13 witness: the operator pressed enter on the prompt: main ended, the
\* sample file is there
C13_Witness ==
    /\ prog = "improved_main" /\ pc = "done"
    /\ answer.asked /\ ~answer.eof /\ answer.text = <<>>
    /\ OnlySampleOnDisk

(***************************************************************************)
(* Properties of the orchestrators                                         *)
(***************************************************************************)
ListingOrchestrators ==
    {"run_notebook", "fetch_all_tables_improved", "improved_main", "per_file_main"}

\* C14: in run_notebook.py, fetch_all_tables_improved and the per-file
\* main, once the table listing has raised the run is over with that
\* exception: no table is started, no table load and no file download is
\* made, nothing is recorded, and the local files are those that were there
\* when the listing was called.
C14_ListErrorAborts ==
    (prog \in ListingOrchestrators /\ list_raised) =>
        /\ pc = "aborted" /\ exc \in RemoteErrors
        /\ started = <<>> /\ fetched = <<>> /\ reads = <<>> /\ calls = <<>>
        /\ files = <<>> /\ saved_files = <<>>
        /\ all_dfs = {} /\ failed_tables = <<>> /\ successful_tables = <<>>
        /\ IF prog = "improved_main" /\ sample_df = "df"
           THEN OnlySampleOnDisk /\ written = DOMAIN disk
           ELSE disk = disk1 /\ written = {}

\* C14 witness: run_notebook.py, the server has two tables, the listing raised
C14_Witness ==
    /\ prog = "run_notebook" /\ Len(catalog) = 2
    /\ list_raised /\ pc = "aborted" /\ exc = E_401
    /\ started = <<>>

\* C15: the tables are processed in the order of the listing, one at a
\* time: table k+1 is started only when tables 1..k are finished; within a
\* table the files are requested in the order of the file listing, one at a
\* time, file i+1 only after file i was saved or failed; and the part file
\* of the file at position i of the listing carries the index i.
C15_ListingOrder ==
    prog \in {"run_notebook", "per_file_main"} =>
        /\ pc \in {"loop", "rft", "files", "ret", "done"} => tables = catalog
        /\ \A i \in DOMAIN started : started[i] = i
        /\ Len(started) = IF pc \in {"rft", "files", "ret"} THEN k + 1 ELSE k
        /\ k <= Len(tables) /\ Len(fetched) <= k
        /\ pc \in {"files", "ret"} =>
              /\ Len(reads) = fi /\ Len(processed) = fi /\ fi <= Len(files)
              /\ \A i \in DOMAIN reads : reads[i].url = files[i].url
              /\ \A j \in DOMAIN saved_files :
                    \E i \in 1..fi :
                        /\ processed[i] = "ok"
                        /\ saved_files[j].file = PartFileName(tables[k + 1].name, i)
                        /\ Cardinality({ m \in 1..i : processed[m] = "ok" }) = j

\* C15 witness: per-file mode, the second of two tables is under way, its
\* first file failed and its second file was saved as part 02
C15_Witness ==
    /\ prog = "per_file_main" /\ pc = "files"
    /\ started = << 1, 2 >> /\ k = 1
    /\ processed = << "decode", "ok" >>
    /\ Len(saved_files) = 1
    /\ saved_files[1].file = PartFileName(tables[2].name, 2)

\* a parquet snapshot of table t: RAW_DIR/<name>_<timestamp>.parquet holding t
IsSnapshotOf(p, t) ==
    /\ IsParquetPath(p, t.name)
    /\ disk[p].table = t /\ disk[p].complete

\* C16 as stated: in the whole-table loops (saving not switched off), every
\* table whose loop body is over and that is recorded as successful
\* (its key is in all_dfs) has its timestamped parquet file on disk, so
\* that whenever the next table is started, or the run stops at a later
\* table, the earlier successful tables have their files.
C16_CheckpointBeforeNext ==
    (prog \in WholeTableProgs /\ save) =>
        \A i \in 1..k :
            Key(tables[i]) \in all_dfs => \E p \in DOMAIN disk : IsSnapshotOf(p, tables[i])

\* C17 as stated: when the entry point is run again on the same remote
\* state, at any time after the first run, every file the first run left
\* is still there with the content the first run gave it, and the second
\* run writes only to paths the first run did not write (new timestamped
\* files); for parquet snapshots, part CSVs and combined CSVs.
C17_RerunKeepsFirstOutputs ==
    run = 2 =>
        /\ \A p \in DOMAIN disk1 : p \in DOMAIN disk /\ disk[p] = disk1[p]
        /\ written \cap DOMAIN disk1 = {}

\* C18 as stated: two distinct tables of one listing (differing in share,
\* schema or name) have disjoint local paths: their per-file directories
\* differ and their parquet snapshots of one second differ; and the view
\* aggregated for a table reads no file that holds another table's data.
C18_DisjointPaths ==
    /\ \A i \in DOMAIN tables : \A j \in DOMAIN tables :
          tables[i] # tables[j] =>
              /\ TableDir(tables[i].name) # TableDir(tables[j].name)
              /\ ParquetPath(tables[i].name, clock) # ParquetPath(tables[j].name, clock)
    /\ (prog = "per_file_main" /\ pc = "ret" /\ ftf_result = "ddf") =>
          \A p \in ddf : disk[p].table = tables[k + 1]

\* what the report of a whole-table run prints: run_notebook.py lines 88-89,
\* improved_data_fetch.py lines 207-208
ReportedSuccesses ==
    IF prog = "run_notebook" THEN Cardinality(all_dfs) ELSE successful_fetches
ReportedFailures ==
    IF prog = "run_notebook" THEN Len(failed_tables) ELSE Len(tables) - successful_fetches
FetchedOk == { i \in DOMAIN fetched : fetched[i].res = "df" }
FetchedNotOk == { i \in DOMAIN fetched : fetched[i].res # "df" }

\* C19 as stated: at the end of a whole-table run (run_notebook.py,
\* fetch_all_tables_improved) the reported number of successes is the
\* number of listed tables whose fetch gave a dataframe, the reported number
\* of failures is the number of the others, the two add up to the number of
\* listed tables, and run_notebook.py lists every failed table with the
\* text of its error.
C19_ReportCounts ==
    (prog \in {"run_notebook"} \cup ImprovedProgs /\ pc = "done" /\ Len(started) = Len(tables)) =>
        /\ Len(fetched) = Len(tables)
        /\ ReportedSuccesses = Cardinality(FetchedOk)
        /\ ReportedFailures = Cardinality(FetchedNotOk)
        /\ ReportedSuccesses + ReportedFailures = Len(tables)
        /\ prog = "run_notebook" =>
              \A i \in FetchedNotOk :
                  \E j \in DOMAIN failed_tables :
                      /\ failed_tables[j][1] = Key(tables[i])
                      /\ failed_tables[j][2] =
                            (IF fetched[i].res = "None" THEN E_AfterRetries ELSE fetched[i].err).msg

\* C20 as stated: in the whole-table loops and in the per-file mode, a
\* remote read that failed with a retryable error (HTTP 401, signed URL not
\* found, no authentication information) is made again until it succeeds or
\* DefaultMaxRetries attempts are made; only then is the table (the file)
\* given up.
C20_RetryInEveryMode ==
    /\ \A i \in DOMAIN fetched :
          (fetched[i].res = "error" /\ fetched[i].err.cause \in TransientCauses) =>
              fetched[i].attempts = DefaultMaxRetries
    /\ (prog = "per_file_main" /\ pc = "ret") =>
          \A i \in DOMAIN reads :
              reads[i].err.cause \in TransientCauses =>
                  \/ Cardinality({ j \in 1..i : reads[j].url = reads[i].url }) = DefaultMaxRetries
                  \/ i < Len(reads) /\ reads[i + 1].url = reads[i].url

(***************************************************************************)
(* Termination of a run                                                    *)
(***************************************************************************)
\* the stage of a run: 1 ListTables, 2 the per-table loop, 3 Report,
\* 4 ended without a report
Stage ==
    IF pc = "start" THEN 1
    ELSE IF pc \in {"loop", "rft", "files", "ret"} THEN 2
    ELSE IF pc = "done" THEN 3
    ELSE 4

\* a step keeps the stage or moves it forward; Report is entered from the
\* loop only, and the loop is left for Report only
StagesInOrder ==
    prog \in ReportingProgs =>
        /\ Stage' >= Stage
        /\ Stage' = 3 => Stage \in {2, 3}
        /\ Stage = 2 => Stage' \in {2, 3}

\* C21 as stated: a run of run_notebook.py or of the per-file main whose
\* table listing succeeded does not end before Report, for any finite table
\* list (local failures of the file system left aside).
C21_AlwaysReachesReport ==
    (prog \in ReportingProgs /\ Stage = 4) => (list_raised \/ exc.cause = "local_write")

\* C21 amended: provided every call returns or raises, a run of
\* run_notebook.py or of the per-file main goes through ListTables, the
\* per-table loop and Report in that order; once the loop is entered (in the
\* per-file main: the listing is not empty and the export directory was
\* created) the run reaches Report, having started and finished every
\* listed table, whatever retryable and fatal failures occur; with an empty
\* listing the per-file main returns right after ListTables without a
\* report; a run ends otherwise only when the listing or the creation of
\* the export directory raised.  A call of robust_fetch_table makes at most
\* max_retries attempts and always ends.
C21_ReachesReport ==
    /\ [][StagesInOrder]_vars
    /\ [](prog \in ReportingProgs =>
             /\ pc = "done" => (tables = catalog /\ k = Len(tables) /\ Len(started) = Len(tables))
             /\ pc = "returned" => (prog = "per_file_main" /\ catalog = <<>> /\ exc = NoErr)
             /\ pc = "aborted" => (started = <<>> /\ (list_raised \/ exc = E_Disk)))
    /\ [](pc = "rft" => (attempt <= max_retries /\ Len(calls) <= max_retries))
    /\ ((prog \in ReportingProgs /\ Stage = 2) ~> (pc = "done"))
    /\ ((pc = "rft" /\ rft_status = "running") ~> (pc # "rft" \/ RFT_Finished))

\* C21 witness: run_notebook.py reached Report after a table that failed
\* with a retryable error on all three attempts and a table that failed
\* with a fatal error
C21_Witness ==
    /\ prog = "run_notebook" /\ pc = "done" /\ Len(tables) = 2
    /\ fetched = << Fetched("error", E_401, 3), Fetched("error", E_Timeout, 1) >>

(***************************************************************************)
(* Names of the part files                                                 *)
(***************************************************************************)
\* the characters of a part-file name in code-point order
CodeOrder ==
    <<".","0","1","2","3","4","5","6","7","8","9","_",
      "a","b","c","d","e","f","g","h","i","j","k","l","m",
      "n","o","p","q","r","s","t","u","v","w","x","y","z">>
Code(c) == CHOOSE i \in DOMAIN CodeOrder : CodeOrder[i] = c

\* string a sorts before string b
RECURSIVE LexLess(_, _)
LexLess(a, b) ==
    IF b = <<>> THEN FALSE
    ELSE IF a = <<>> THEN TRUE
    ELSE IF Head(a) # Head(b) THEN Code(Head(a)) < Code(Head(b))
    ELSE LexLess(Tail(a), Tail(b))

\* C22 as stated: for any number of files of a table, the part files
\* written by fetch_table_files (saved_files, in the order of the listing)
\* have names in lexical order: the name of a file listed earlier sorts
\* before the name of a file listed later.
C22_LexicalOrderIsListingOrder ==
    (prog = "per_file_main" /\ pc \in {"files", "ret"}) =>
        \A i \in DOMAIN saved_files : \A j \in DOMAIN saved_files :
            i < j => LexLess(saved_files[i].file, saved_files[j].file)

(***************************************************************************)
(* Pacing of the table loops                                               *)
(***************************************************************************)
\* the delay the table loop of the entry point sleeps between tables
DelayOf(p) == IF p = "per_file_main" THEN PerFileTableDelay ELSE TableDelay

\* C23 as stated: in run_notebook.py, fetch_all_tables_improved and the
\* per-file main, whenever the table after table i has been started, the
\* loop has slept its fixed delay after table i, whether table i succeeded
\* or failed.
C23_SleepBetweenTables ==
    prog \in ListingOrchestrators =>
        \A i \in 1..(Len(started) - 1) :
            \E j \in DOMAIN pauses : pauses[j] = Pause(i, DelayOf(prog))

(***************************************************************************)
(* Secrets and the log                                                     *)
(***************************************************************************)
\* the pieces of the bearer token that are half of it long
TokenPieces(tok) ==
    LET h == (Len(tok) + 1) \div 2
    IN  { SubSeq(tok, i, i + h - 1) : i \in 1..(Len(tok) - h + 1) }

\* the line holds the signature of a signed URL, or half or more of the
\* bearer token
HoldsSecret(line) ==
    \/ Contains(Signature, line)
    \/ creds_file.bearerToken # <<>>
         /\ \E piece \in TokenPieces(creds_file.bearerToken) : Contains(piece, line)

\* C24 as stated: no line printed by load_credentials or by
\* robust_fetch_table holds secret material: the bearer token or a part of
\* it, or the signature of a signed URL, also when the text of the error of
\* a failed attempt carries it.
C24_NoSecretInLog ==
    \A i \in DOMAIN Log : ~HoldsSecret(Log[i])

(***************************************************************************)
(* The sample gate of improved_data_fetch.main                             *)
(***************************************************************************)
\* fetch_all_tables_improved has been entered, or a table of the full fetch
\* has been attempted
FullFetchAttempted ==
    pc \in {"start", "list", "loop"} \/ started # <<>> \/ fetched # <<>> \/ all_dfs # {}

\* C25: in main of improved_data_fetch.py the full fetch is attempted only
\* if the load of the sample, made for the first listed table, returned a
\* dataframe with rows and the operator confirmed; when the sample load
\* raised or returned an empty dataframe (or no table was listed) main ends
\* without asking, and no table is estimated, attempted or written.
C25_FullFetchOnlyAfterSample ==
    prog = "improved_main" =>
        /\ FullFetchAttempted =>
              /\ sample_load.kind = "df" /\ sample_df = "df"
              /\ catalog # <<>>
              /\ \E p \in DOMAIN disk : IsSamplePath(p, catalog[1].name)
              /\ Affirmative(answer)
        /\ (sample_df = "None" \/ sample_load.kind \in {"empty", "error"}) =>
              /\ pc = "done" /\ exc = NoErr
              /\ sample_df = "None" /\ sample_load.kind # "df"
              /\ ~answer.asked
              /\ ~FullFetchAttempted
              /\ est = <<>> /\ per_table_sizes = <<>>
              /\ disk = << >> /\ written = {}

\* C25 witness: the sample came back with rows, the operator confirmed, and
\* the full fetch attempted both tables
C25_Witness ==
    /\ prog = "improved_main" /\ pc = "done"
    /\ sample_load.kind = "df" /\ Affirmative(answer)
    /\ Len(started) = 2 /\ Len(fetched) = 2

(***************************************************************************)
(* fetch_table_with_timeout and what fetch_all_tables_improved records     *)
(***************************************************************************)
\* the parquet file of table t of the full fetch is among the files written
HasParquet(t) == \E p \in written : IsParquetPath(p, t.name)

\* C26 as stated: fetch_table_with_timeout never raises: it returns the
\* dataframe only when the load returned one with rows, and None when the
\* load returned an empty one or raised; so in fetch_all_tables_improved a
\* table is in all_dfs, is counted in successful_fetches and has its
\* parquet file written if and only if its load returned rows.
C26_RecordedIffLoaded ==
    prog \in ImprovedProgs =>
        /\ \A o \in LoadOutcomes :
              fetch_table_with_timeout(o) = (IF o.kind = "df" THEN "df" ELSE "None")
        /\ Len(fetched) = Len(started)
        /\ \A i \in DOMAIN fetched :
              LET t == tables[started[i]]
              IN  /\ Key(t) \in all_dfs <=> fetched[i].res = "df"
                  /\ fetched[i].res = "df" => HasParquet(t)
        /\ successful_fetches = Cardinality(FetchedOk)
        /\ \A p \in written :
              \/ \E i \in FetchedOk : IsParquetPath(p, tables[started[i]].name)
              \/ prog = "improved_main" /\ IsSamplePath(p, catalog[1].name)

====
